---- MODULE Spec2Model ----
(***************************************************************************)
(* Streamed-answer assembly of auxknow: StreamBuffer, extract_think_block  *)
(* and process_stream (auxknow/common/stream_processor.py) and the engine  *)
(* entry points ask / ask_stream / get_citations                           *)
(* (auxknow/engine/auxknow.py).                                            *)
(*                                                                         *)
(* Text is a sequence of one-character strings.  A Python list of          *)
(* citations is a sequence; list(set(l)) is modelled by ListSet, which     *)
(* fixes the (unspecified) order of the result by Rank: no operation of    *)
(* the code reads a position of a citation list.                           *)
(***************************************************************************)
EXTENDS Integers, Sequences, FiniteSets, TLC

VARIABLES
    entry,      \* which entry point the run exercises
    text,       \* the whole text the completion provider will deliver
    rest,       \* the part of text the chunk source has not delivered yet
    chunks,     \* the responses pulled from the chunk source so far
    extractor,  \* the citation_extractor argument of process_stream
    buffer,     \* the StreamBuffer of the in-flight process_stream call
    ps_pc,      \* position of the process_stream generator
    psEvents,   \* the AuxKnowAnswer objects process_stream has yielded
    leaked,     \* text was appended to full_answer inside a reasoning segment
    engine,     \* the engine and the arguments of the ask / ask_stream call
    as_pc,      \* position of the ask / ask_stream call
    consumed,   \* how many of psEvents the loop of ask_stream has taken
    events,     \* what the caller received: the events yielded by ask_stream,
                \* or the answer returned by ask
    pending,    \* ask: the answer being built; ask_stream: the final chunk
    fallback,   \* the get_citations -> ask recursion in flight
    requests,   \* completion requests sent to the provider so far
    updates,    \* the answers update_context_callback was called with
    failed,     \* what made the call take its except block, "" when nothing did
    propagated, \* an exception left ask / ask_stream towards the caller
    sessions,   \* AuxKnow.sessions: session id -> session object
    closed,     \* the closed flag of every session object created so far
    calls,      \* the close / ask / ask_stream calls made on sessions so far
    memory,     \* the document store of every session's AuxKnowMemory
    other,      \* a second process_stream generator advanced alongside the first
    abandoned,  \* the events of the ask_stream generators the consumer dropped
    preparation \* what _prepare_ask_request has built and the requests it sent
                \* to the auxiliary provider

streamVars == <<text, rest, chunks, extractor, buffer, ps_pc, psEvents, leaked>>
askVars == <<engine, as_pc, consumed, events, pending, fallback, requests, updates,
             failed, propagated>>
sessionVars == <<sessions, closed, calls, memory>>
callVars == <<other, abandoned, preparation>>
vars == <<entry, streamVars, askVars, sessionVars, callVars>>

(***************************************************************************)
(* Bounds of the model.                                                    *)
(***************************************************************************)
MaxPieces == 3
MaxChunks == 2
\* depth of nested ask calls at which the interpreter raises RecursionError
RecursionLimit == 2

(***************************************************************************)
(* Strings.                                                                *)
(***************************************************************************)
THINK_BLOCK_START == <<"<", "t", "h", "i", "n", "k", ">">>
THINK_BLOCK_END == <<"<", "/", "t", "h", "i", "n", "k", ">">>
THINK_BLOCK_END_LEN == Len(THINK_BLOCK_END)

Whitespace == {" ", "\n"}

\* s[i:] and s[:i] of Python for 0 <= i
From(s, i) == SubSeq(s, i + 1, Len(s))
Upto(s, i) == SubSeq(s, 1, i)

MatchAt(s, pat, i) ==
    /\ i + Len(pat) <= Len(s)
    /\ SubSeq(s, i + 1, i + Len(pat)) = pat

\* faulty variant: str.rfind, the highest index
FindLast(s, pat) ==
    LET hits == {i \in 0..(Len(s) - Len(pat)) : MatchAt(s, pat, i)}
    IN  IF hits = {} THEN -1
        ELSE CHOOSE i \in hits : \A j \in hits : i >= j

\* str.find: the lowest 0-based index of pat in s, -1 when absent
Find(s, pat) ==
    LET hits == {i \in 0..(Len(s) - Len(pat)) : MatchAt(s, pat, i)}
    IN  IF hits = {} THEN -1
        ELSE CHOOSE i \in hits : \A j \in hits : i <= j

\* pat in s
Contains(s, pat) == Find(s, pat) # -1

RECURSIVE LStrip(_)
LStrip(s) == IF s # <<>> /\ Head(s) \in Whitespace THEN LStrip(Tail(s)) ELSE s

RECURSIVE RStrip(_)
RStrip(s) ==
    IF s # <<>> /\ s[Len(s)] \in Whitespace THEN RStrip(Upto(s, Len(s) - 1)) ELSE s

\* str.strip()
Strip(s) == RStrip(LStrip(s))

\* s.split(sep)[1] when sep occurs in s: the text between the first occurrence
\* of sep and the next one (or the end of s)
SplitSecond(s, sep) ==
    LET after == From(s, Find(s, sep) + Len(sep))
        nxt == Find(after, sep)
    IN  IF nxt = -1 THEN after ELSE Upto(after, nxt)

RECURSIVE Concat(_)
Concat(ss) == IF ss = <<>> THEN <<>> ELSE Head(ss) \o Concat(Tail(ss))

(***************************************************************************)
(* Citation lists.                                                         *)
(***************************************************************************)
Citations == {"u1", "u2"}

Rank(c) == IF c = "u1" THEN 1 ELSE 2

Range(l) == {l[i] : i \in DOMAIN l}

RECURSIVE SetToList(_)
SetToList(S) ==
    IF S = {} THEN <<>>
    ELSE LET c == CHOOSE x \in S : \A y \in S : Rank(x) <= Rank(y)
         IN  <<c>> \o SetToList(S \ {c})

\* list(set(l))
ListSet(l) == SetToList(Range(l))

(***************************************************************************)
(* StreamBuffer                                                            *)
(***************************************************************************)
NewStreamBuffer ==
    [content |-> <<>>, is_in_think_block |-> FALSE, full_answer |-> <<>>,
     citations |-> <<>>]

\* faulty variant: the chunk is normalised before it is buffered
BufferAppendStripped(buf, chunk) == [buf EXCEPT !.content = buf.content \o Strip(chunk)]

BufferAppend(buf, chunk) == [buf EXCEPT !.content = buf.content \o chunk]

\* faulty variant: clear puts every field back to its default
BufferClearResets(buf) == NewStreamBuffer

BufferClear(buf) == [buf EXCEPT !.content = <<>>]

(***************************************************************************)
(* extract_think_block: the buffer after the call and the value returned   *)
(* (none = TRUE for None).                                                 *)
(***************************************************************************)
\* faulty variant: in the reasoning state without an end marker the pending text
\* is returned as a visible span
ExtractThinkBlockLeaks(buf) ==
    IF buf.is_in_think_block
    THEN LET end_idx == Find(buf.content, THINK_BLOCK_END)
         IN  IF end_idx = -1
             THEN [buf |-> BufferClear(buf), none |-> FALSE, val |-> buf.content]
             ELSE LET content == From(buf.content, end_idx + THINK_BLOCK_END_LEN)
                  IN  [buf |-> [buf EXCEPT !.content = content,
                                           !.is_in_think_block = FALSE],
                       none |-> FALSE, val |-> content]
    ELSE LET start_idx == Find(buf.content, THINK_BLOCK_START)
         IN  IF start_idx = -1
             THEN IF buf.content # <<>>
                  THEN [buf |-> BufferClear(buf), none |-> FALSE,
                        val |-> buf.content]
                  ELSE [buf |-> buf, none |-> TRUE, val |-> <<>>]
             ELSE [buf |-> [buf EXCEPT
                              !.content = From(buf.content,
                                               start_idx + Len(THINK_BLOCK_START)),
                              !.is_in_think_block = TRUE],
                   none |-> start_idx = 0, val |-> Upto(buf.content, start_idx)]

\* faulty variant: pending reasoning text without the end marker is thrown away
ExtractThinkBlockDropsPending(buf) ==
    IF buf.is_in_think_block
    THEN LET end_idx == Find(buf.content, THINK_BLOCK_END)
         IN  IF end_idx = -1
             THEN [buf |-> BufferClear(buf), none |-> TRUE, val |-> <<>>]
             ELSE LET content == From(buf.content, end_idx + THINK_BLOCK_END_LEN)
                  IN  [buf |-> [buf EXCEPT !.content = content,
                                           !.is_in_think_block = FALSE],
                       none |-> FALSE, val |-> content]
    ELSE LET start_idx == Find(buf.content, THINK_BLOCK_START)
         IN  IF start_idx = -1
             THEN IF buf.content # <<>>
                  THEN [buf |-> BufferClear(buf), none |-> FALSE,
                        val |-> buf.content]
                  ELSE [buf |-> buf, none |-> TRUE, val |-> <<>>]
             ELSE IF start_idx > 0
             THEN [buf |-> [buf EXCEPT
                              !.content = From(buf.content,
                                               start_idx + Len(THINK_BLOCK_START)),
                              !.is_in_think_block = TRUE],
                   none |-> FALSE, val |-> Upto(buf.content, start_idx)]
             ELSE [buf |-> [buf EXCEPT
                              !.content = From(buf.content,
                                               start_idx + Len(THINK_BLOCK_START)),
                              !.is_in_think_block = TRUE],
                   none |-> TRUE, val |-> <<>>]

ExtractThinkBlock(buf) ==
    IF buf.is_in_think_block
    THEN LET end_idx == Find(buf.content, THINK_BLOCK_END)
         IN  IF end_idx = -1
             THEN [buf |-> buf, none |-> TRUE, val |-> <<>>]
             ELSE LET content == From(buf.content, end_idx + THINK_BLOCK_END_LEN)
                  IN  [buf |-> [buf EXCEPT !.content = content,
                                           !.is_in_think_block = FALSE],
                       none |-> FALSE, val |-> content]
    ELSE LET start_idx == Find(buf.content, THINK_BLOCK_START)
         IN  IF start_idx = -1
             THEN IF buf.content # <<>>
                  THEN [buf |-> BufferClear(buf), none |-> FALSE,
                        val |-> buf.content]
                  ELSE [buf |-> buf, none |-> TRUE, val |-> <<>>]
             ELSE IF start_idx > 0
             THEN [buf |-> [buf EXCEPT
                              !.content = From(buf.content,
                                               start_idx + Len(THINK_BLOCK_START)),
                              !.is_in_think_block = TRUE],
                   none |-> FALSE, val |-> Upto(buf.content, start_idx)]
             ELSE [buf |-> [buf EXCEPT
                              !.content = From(buf.content,
                                               start_idx + Len(THINK_BLOCK_START)),
                              !.is_in_think_block = TRUE],
                   none |-> TRUE, val |-> <<>>]

(***************************************************************************)
(* Citation extractors handed to process_stream.  A raising extractor is   *)
(* caught by the bare except around each call, leaving new_citations = []. *)
(***************************************************************************)
\* the harvester of the tests' scenario: one citation for text holding "c"
CiteExtractor(content) == IF Contains(content, <<"c">>) THEN <<"u1">> ELSE <<>>

\* AuxKnow._extract_citations_from_response applied to a str: a str has no
\* attribute "citations"
ExtractCitationsFromResponseText(content) == ListSet(<<>>)

NewCitations(kind, content) ==
    CASE kind = "cite" -> CiteExtractor(content)
      [] kind = "response" -> ExtractCitationsFromResponseText(content)
      [] kind = "raises" -> <<>>

\* faulty variant: the new citations are appended without list(set(.))
HarvestIntoExtend(buf, kind) ==
    [buf EXCEPT !.citations = buf.citations \o NewCitations(kind, buf.full_answer)]

\* the extractor call followed by extend + list(set(.)) when it found some
HarvestInto(buf, kind) ==
    LET new_citations == NewCitations(kind, buf.full_answer)
    IN  IF new_citations # <<>>
        THEN [buf EXCEPT !.citations = ListSet(buf.citations \o new_citations)]
        ELSE buf

Answer(answer, citations, is_final) ==
    [answer |-> answer, citations |-> citations, is_final |-> is_final]

(***************************************************************************)
(* The chunk source.                                                       *)
(***************************************************************************)
Pieces == {THINK_BLOCK_START, THINK_BLOCK_END, <<"c">>, <<" ">>}

RECURSIVE PieceSeqs(_)
PieceSeqs(n) ==
    IF n = 0 THEN {<<>>}
    ELSE LET shorter == PieceSeqs(n - 1)
         IN  shorter \cup {Append(p, q) : p \in {s \in shorter : Len(s) = n - 1},
                                          q \in Pieces}

Texts == {Concat(p) : p \in PieceSeqs(MaxPieces)}

\* citation attribute of a response: absent, None, or a list
NoCitations == [has |-> FALSE, null |-> FALSE, list |-> <<>>]

CitationList(l) == [has |-> TRUE, null |-> FALSE, list |-> l]

\* the attribute is present and None
NullCitations == [has |-> TRUE, null |-> TRUE, list |-> <<>>]

\* the citation attributes a response may carry: none on the mock responses
\* process_stream is called with directly, absent or a list on the provider's
CitationChoices ==
    IF entry = "process_stream" THEN {NoCitations}
    ELSE {NoCitations, NullCitations, CitationList(<<"u1">>),
          CitationList(<<"u2", "u2">>)}

\* the text deltas the source may deliver next: any prefix of the undelivered
\* text (empty included), the whole of it on the last pull
DeltaChoices ==
    IF Len(chunks) + 1 >= MaxChunks THEN {rest}
    ELSE {Upto(rest, n) : n \in 0..Len(rest)}

Response(delta, cit) == [content |-> delta, citations |-> cit]

(***************************************************************************)
(* process_stream.  The generator is suspended at the head of the for loop *)
(* ("loop": before its first resume, or after the yield of the marker-pair *)
(* branch, whose resume is a bare continue), at the yield of the drain     *)
(* loop ("drain"), at the final yield ("final"), or has returned ("done"). *)
(***************************************************************************)

\* faulty variant: the citations of the response replace the running list
MergeResponseCitationsOverwrite(buf, response) ==
    IF response.citations.has /\ ~response.citations.null
    THEN [buf EXCEPT !.citations = ListSet(response.citations.list)]
    ELSE buf

\* lines 125-127: merge the citations attribute of the response
MergeResponseCitations(buf, response) ==
    IF response.citations.has /\ ~response.citations.null
    THEN [buf EXCEPT !.citations = ListSet(buf.citations \o response.citations.list)]
    ELSE buf

\* faulty variant: the event carries the text after the end marker as it came, while
\* full_answer receives it stripped
MarkerPairBranchUnstripped(buf, chunk, kind) ==
    LET content_outside_think_block == SplitSecond(chunk, THINK_BLOCK_END)
        required_content == Strip(content_outside_think_block)
        added == [buf EXCEPT !.full_answer = buf.full_answer \o required_content]
        harvested == HarvestInto(BufferClear(added), kind)
    IN  [buf |-> harvested,
         yields |-> <<Answer(content_outside_think_block, harvested.citations, FALSE)>>,
         pc |-> "loop"]

\* lines 132-155: a chunk holding both markers
MarkerPairBranch(buf, chunk, kind) ==
    LET required_content == Strip(SplitSecond(chunk, THINK_BLOCK_END))
        appended == BufferAppend(buf, required_content)
        added == [appended EXCEPT !.full_answer = buf.full_answer \o required_content]
        harvested == HarvestInto(BufferClear(added), kind)
    IN  [buf |-> harvested,
         yields |-> <<Answer(required_content, harvested.citations, FALSE)>>,
         pc |-> "loop"]

\* faulty variant: the extractor is called outside any try block, so its exception
\* ends the generator
DrainIterationUncaught(buf, kind) ==
    LET ex == ExtractThinkBlock(buf)
        extracted_content == ex.val
    IN  IF ex.none \/ extracted_content = <<>>
        THEN [buf |-> ex.buf, yields |-> <<>>, pc |-> "loop"]
        ELSE IF kind = "raises"
        THEN [buf |-> ex.buf, yields |-> <<>>, pc |-> "raised"]
        ELSE LET harvested == HarvestInto(ex.buf, kind)
                 added == [harvested EXCEPT
                             !.full_answer = harvested.full_answer \o extracted_content]
             IN  [buf |-> added,
                  yields |-> <<Answer(extracted_content, added.citations, FALSE)>>,
                  pc |-> "drain"]

\* faulty variant: an if in place of the while, the next chunk is pulled after the yield
DrainIterationOnce(buf, kind) ==
    LET ex == ExtractThinkBlock(buf)
        extracted_content == ex.val
    IN  IF ex.none \/ extracted_content = <<>>
        THEN [buf |-> ex.buf, yields |-> <<>>, pc |-> "loop"]
        ELSE LET harvested == HarvestInto(ex.buf, kind)
                 added == [harvested EXCEPT
                             !.full_answer = harvested.full_answer \o extracted_content]
             IN  [buf |-> added,
                  yields |-> <<Answer(extracted_content, added.citations, FALSE)>>,
                  pc |-> "loop"]

\* lines 159-178: one iteration of the drain loop, up to its yield or break
DrainIteration(buf, kind) ==
    LET ex == ExtractThinkBlock(buf)
        extracted_content == ex.val
    IN  IF ex.none \/ extracted_content = <<>>
        THEN [buf |-> ex.buf, yields |-> <<>>, pc |-> "loop"]
        ELSE LET harvested == HarvestInto(ex.buf, kind)
                 added == [harvested EXCEPT
                             !.full_answer = harvested.full_answer \o extracted_content]
             IN  [buf |-> added,
                  yields |-> <<Answer(extracted_content, added.citations, FALSE)>>,
                  pc |-> "drain"]

\* faulty variant: an empty chunk is skipped before its citations are looked at
HandleResponseSkipsFirst(buf, response, kind) ==
    LET chunk == response.content
        merged == MergeResponseCitations(buf, response)
    IN  IF chunk = <<>>
        THEN [buf |-> buf, yields |-> <<>>, pc |-> "loop"]
        ELSE IF response.citations.has /\ response.citations.null
        THEN [buf |-> buf, yields |-> <<>>, pc |-> "raised"]
        ELSE IF Contains(chunk, THINK_BLOCK_START) /\ Contains(chunk, THINK_BLOCK_END)
        THEN MarkerPairBranch(merged, chunk, kind)
        ELSE DrainIteration(BufferAppend(merged, chunk), kind)

\* lines 121-178: one iteration of the for loop on a pulled response, up to
\* its first yield or the next pull
HandleResponse(buf, response, kind) ==
    LET chunk == response.content
        merged == MergeResponseCitations(buf, response)
    IN  IF response.citations.has /\ response.citations.null
        THEN \* list.extend(None) raises TypeError, which nothing here catches
             [buf |-> buf, yields |-> <<>>, pc |-> "raised"]
        ELSE IF chunk = <<>>
        THEN [buf |-> merged, yields |-> <<>>, pc |-> "loop"]
        ELSE IF Contains(chunk, THINK_BLOCK_START) /\ Contains(chunk, THINK_BLOCK_END)
        THEN MarkerPairBranch(merged, chunk, kind)
        ELSE DrainIteration(BufferAppend(merged, chunk), kind)

\* faulty variant: the leftover branch tests the state only, not the pending content
FinishFlushOutside(buf, kind) ==
    LET harvested == IF buf.full_answer # <<>> THEN HarvestInto(buf, kind) ELSE buf
    IN  IF ~harvested.is_in_think_block
        THEN LET flushed == [harvested EXCEPT
                               !.full_answer = harvested.full_answer \o harvested.content]
             IN  [buf |-> flushed,
                  yields |-> <<Answer(flushed.full_answer, flushed.citations, TRUE),
                               Answer(flushed.full_answer, flushed.citations, TRUE)>>,
                  pc |-> "final"]
        ELSE [buf |-> harvested,
              yields |-> <<Answer(harvested.full_answer, harvested.citations, TRUE)>>,
              pc |-> "final"]

\* faulty variant: the final event carries only the last span, like the events before
FinishWithLastSpan(buf, kind) ==
    LET harvested == IF buf.full_answer # <<>> THEN HarvestInto(buf, kind) ELSE buf
    IN  [buf |-> harvested,
         yields |-> <<Answer(IF psEvents = <<>> THEN <<>>
                             ELSE psEvents[Len(psEvents)].answer,
                             harvested.citations, TRUE)>>,
         pc |-> "final"]

\* faulty variant: the leftover branch flushes the pending content in either state
FinishFlushReasoning(buf, kind) ==
    LET harvested == IF buf.full_answer # <<>> THEN HarvestInto(buf, kind) ELSE buf
    IN  IF harvested.content # <<>>
        THEN LET flushed == [harvested EXCEPT
                               !.full_answer = harvested.full_answer \o harvested.content]
             IN  [buf |-> flushed,
                  yields |-> <<Answer(flushed.full_answer, flushed.citations, TRUE)>>,
                  pc |-> "final"]
        ELSE [buf |-> harvested,
              yields |-> <<Answer(harvested.full_answer, harvested.citations, TRUE)>>,
              pc |-> "final"]

\* lines 180-202: the source is exhausted
Finish(buf, kind) ==
    LET harvested == IF buf.full_answer # <<>> THEN HarvestInto(buf, kind) ELSE buf
    IN  IF harvested.content # <<>> /\ ~harvested.is_in_think_block
        THEN LET flushed == [harvested EXCEPT
                               !.full_answer = harvested.full_answer \o harvested.content]
             IN  [buf |-> flushed,
                  yields |-> <<Answer(flushed.full_answer, flushed.citations, TRUE),
                               Answer(flushed.full_answer, flushed.citations, TRUE)>>,
                  pc |-> "final"]
        ELSE [buf |-> harvested,
              yields |-> <<Answer(harvested.full_answer, harvested.citations, TRUE)>>,
              pc |-> "final"]

\* lines 159-178: the drain loop run until its break
RECURSIVE DrainAll(_, _)
DrainAll(buf, kind) ==
    LET step == DrainIteration(buf, kind)
    IN  IF step.pc # "drain" THEN [buf |-> step.buf, yields |-> step.yields]
        ELSE LET more == DrainAll(step.buf, kind)
             IN  [buf |-> more.buf, yields |-> step.yields \o more.yields]

\* lines 119-178: the for loop run over the responses rs
RECURSIVE RunChunks(_, _, _)
RunChunks(buf, rs, kind) ==
    IF rs = <<>> THEN [buf |-> buf, yields |-> <<>>]
    ELSE LET step == HandleResponse(buf, Head(rs), kind)
             body == IF step.pc # "drain" THEN [buf |-> step.buf, yields |-> step.yields]
                     ELSE LET more == DrainAll(step.buf, kind)
                          IN  [buf |-> more.buf, yields |-> step.yields \o more.yields]
             later == RunChunks(body.buf, Tail(rs), kind)
         IN  [buf |-> later.buf, yields |-> body.yields \o later.yields]

\* lines 103-202: everything process_stream yields for the responses rs
ProcessStream(rs, kind) ==
    LET run == RunChunks(NewStreamBuffer, rs, kind)
    IN  run.yields \o Finish(run.buf, kind).yields

\* text was appended to full_answer by a step entered and left in the
\* reasoning state
AppendedInThinkBlock(old, new) ==
    /\ old.is_in_think_block
    /\ new.is_in_think_block
    /\ new.full_answer # old.full_answer

Apply(step) ==
    /\ buffer' = step.buf
    /\ psEvents' = psEvents \o step.yields
    /\ ps_pc' = step.pc
    /\ leaked' = (leaked \/ AppendedInThinkBlock(buffer, step.buf))

\* process_stream runs when its consumer asks for the next event: the caller
\* of process_stream itself, or the for loop of ask_stream once it has dealt
\* with every event yielded so far
Resumable ==
    \/ entry = "process_stream"
    \/ entry = "ask_stream" /\ as_pc = "stream" /\ consumed = Len(psEvents)

PullChunk ==
    /\ Resumable
    /\ ps_pc = "loop"
    /\ Len(chunks) < MaxChunks
    /\ \E delta \in DeltaChoices, cit \in CitationChoices :
          LET response == Response(delta, cit)
          IN  /\ chunks' = Append(chunks, response)
              /\ rest' = From(rest, Len(delta))
              /\ Apply(HandleResponse(buffer, response, extractor))
    /\ UNCHANGED <<entry, sessionVars, callVars, text, extractor, askVars>>

DrainStep ==
    /\ Resumable
    /\ ps_pc = "drain"
    /\ Apply(DrainIteration(buffer, extractor))
    /\ UNCHANGED <<entry, sessionVars, callVars, text, rest, chunks, extractor, askVars>>

Exhausted ==
    /\ Resumable
    /\ ps_pc = "loop"
    /\ rest = <<>>
    /\ Apply(Finish(buffer, extractor))
    /\ UNCHANGED <<entry, sessionVars, callVars, text, rest, chunks, extractor, askVars>>

Return ==
    /\ Resumable
    /\ ps_pc = "final"
    /\ ps_pc' = "done"
    /\ UNCHANGED <<entry, sessionVars, callVars, text, rest, chunks, extractor, buffer, psEvents, leaked,
                   askVars>>

\* the chunk source raises instead of delivering the next response
SourceRaises ==
    /\ Resumable
    /\ ps_pc = "loop"
    /\ ps_pc' = "raised"
    /\ UNCHANGED <<entry, sessionVars, callVars, text, rest, chunks, extractor, buffer, psEvents, leaked,
                   askVars>>

(***************************************************************************)
(* The engine: ask, ask_stream, get_citations.                             *)
(***************************************************************************)
ERROR_DEFAULT ==
    <<"Sorry, AuxKnow can't provide an answer right now. Please try again later!">>

STREAM_ERROR_ANSWER ==
    <<"Sorry, can't provide an answer right now. Please try again later!">>

MESSAGE_UNINITIALIZED_ANSWER ==
    <<"AuxKnow API not initialized. Cannot ask questions.">>

\* message.content = None
NoneContent == <<"None">>

\* re.sub(r"<think>.*?</think>", "", s, flags=re.DOTALL)
RECURSIVE RemoveThinkBlocks(_)
RemoveThinkBlocks(s) ==
    LET start == Find(s, THINK_BLOCK_START)
        inner == From(s, start + Len(THINK_BLOCK_START))
        end == Find(inner, THINK_BLOCK_END)
    IN  IF start = -1 \/ end = -1 THEN s
        ELSE Upto(s, start) \o RemoveThinkBlocks(From(inner, end + Len(THINK_BLOCK_END)))

RECURSIVE NewlineRun(_)
NewlineRun(s) == IF s # <<>> /\ Head(s) = "\n" THEN 1 + NewlineRun(Tail(s)) ELSE 0

\* re.sub(r"\n{3,}", "\n\n", s)
RECURSIVE CollapseNewlines(_)
CollapseNewlines(s) ==
    IF s = <<>> THEN <<>>
    ELSE LET run == NewlineRun(s)
         IN  IF run >= 3 THEN <<"\n", "\n">> \o CollapseNewlines(From(s, run))
             ELSE IF run > 0 THEN Upto(s, run) \o CollapseNewlines(From(s, run))
             ELSE <<Head(s)>> \o CollapseNewlines(Tail(s))

\* AuxKnow._clean_ask_response
CleanAskResponse(answer) ==
    IF answer = NoneContent \/ answer = <<>> \/ Strip(answer) = <<>> THEN answer
    ELSE CollapseNewlines(Strip(RemoveThinkBlocks(answer)))

\* AuxKnow._extract_citations_from_response applied to a provider response
ExtractCitationsFromResponse(response) ==
    IF response.citations.has /\ ~response.citations.null
           /\ response.citations.list # <<>>
    THEN ListSet(response.citations.list)
    ELSE ListSet(<<>>)

\* faulty variant: no except block, the exception reaches the caller
FailPropagates(cause) ==
    /\ propagated' = TRUE
    /\ as_pc' = "done"
    /\ failed' = cause
    /\ UNCHANGED events

\* faulty variant: ask answers with the apology text of ask_stream
FailWithStreamApology(cause) ==
    /\ events' = Append(events, Answer(STREAM_ERROR_ANSWER, <<>>, TRUE))
    /\ as_pc' = IF entry = "ask_stream" THEN "last" ELSE "done"
    /\ failed' = cause
    /\ UNCHANGED propagated

\* the except blocks of ask (lines 1202-1209) and ask_stream (lines 1329-1336)
Fail(cause) ==
    /\ events' = Append(events,
                        Answer(IF entry = "ask_stream" THEN STREAM_ERROR_ANSWER
                               ELSE ERROR_DEFAULT, <<>>, TRUE))
    /\ as_pc' = IF entry = "ask_stream" THEN "last" ELSE "done"
    /\ failed' = cause
    /\ UNCHANGED propagated

\* _prepare_ask_request and the check of its error: _get_ask_context calls
\* the get-context callback (the context argument is empty), then the
\* initialized flag is tested, then question, model and prompts are built;
\* a None restructured question fails the validation of the preparation
PrepareRequest ==
    /\ entry \in {"ask", "ask_stream"}
    /\ as_pc = "start"
    /\ \E malformed \in BOOLEAN :
          IF engine.get_context_callback = "raises"
          THEN Fail("context")
          ELSE IF engine.initialized /\ malformed
          THEN Fail("prepare")
          ELSE IF ~engine.initialized
          THEN /\ events' = Append(events,
                                   Answer(MESSAGE_UNINITIALIZED_ANSWER, <<>>, TRUE))
               /\ as_pc' = IF entry = "ask_stream" THEN "last" ELSE "done"
               /\ UNCHANGED <<failed, propagated>>
          ELSE /\ as_pc' = "request"
               /\ UNCHANGED <<events, failed, propagated>>
    /\ UNCHANGED <<entry, sessionVars, callVars, streamVars, engine, consumed, pending, fallback, requests,
                   updates>>

StartFallback == [pc |-> "call", stack |-> <<>>, result |-> <<>>]

\* ask, lines 1182-1189: the blocking completion request, the cleaning of
\* the answer and the citations of the response
AskCompletion ==
    /\ entry = "ask"
    /\ as_pc = "request"
    /\ requests' = requests + 1
    /\ \/ /\ Fail("request")
          /\ UNCHANGED <<chunks, rest, pending, fallback>>
       \/ \E content \in {text, NoneContent}, cit \in CitationChoices :
             LET response == Response(content, cit)
                 clean_answer == CleanAskResponse(content)
                 citations == ExtractCitationsFromResponse(response)
             IN  /\ chunks' = <<response>>
                 /\ rest' = <<>>
                 /\ pending' = Answer(clean_answer, citations, TRUE)
                 /\ IF Len(citations) = 0
                    THEN as_pc' = "fallback" /\ fallback' = StartFallback
                    ELSE as_pc' = "finalize" /\ UNCHANGED fallback
                 /\ UNCHANGED <<events, failed, propagated>>
    /\ UNCHANGED <<entry, sessionVars, callVars, text, extractor, buffer, ps_pc, psEvents, leaked, engine,
                   consumed, updates>>

\* ask_stream, lines 1296-1298: the streamed completion request
StreamCompletion ==
    /\ entry = "ask_stream"
    /\ as_pc = "request"
    /\ requests' = requests + 1
    /\ \/ Fail("request")
       \/ as_pc' = "stream" /\ UNCHANGED <<events, failed, propagated>>
    /\ UNCHANGED <<entry, sessionVars, callVars, streamVars, engine, consumed, pending, fallback, updates>>

\* faulty variant: the context is updated with every event that is forwarded
ForwardEventUpdatesContext ==
    /\ entry = "ask_stream"
    /\ as_pc = "stream"
    /\ consumed < Len(psEvents)
    /\ LET chunk == psEvents[consumed + 1]
       IN  /\ ~chunk.is_final
           /\ events' = Append(events, Answer(chunk.answer, chunk.citations, FALSE))
           /\ updates' = IF engine.update_context_callback = "none" THEN updates
                         ELSE Append(updates, chunk)
    /\ consumed' = consumed + 1
    /\ UNCHANGED <<entry, sessionVars, callVars, streamVars, engine, as_pc, pending,
                   fallback, requests, failed, propagated>>

\* ask_stream, lines 1305-1311: a non-final event of process_stream
ForwardEvent ==
    /\ entry = "ask_stream"
    /\ as_pc = "stream"
    /\ consumed < Len(psEvents)
    /\ LET chunk == psEvents[consumed + 1]
       IN  /\ ~chunk.is_final
           /\ events' = Append(events, Answer(chunk.answer, chunk.citations, FALSE))
    /\ consumed' = consumed + 1
    /\ UNCHANGED <<entry, sessionVars, callVars, streamVars, engine, as_pc, pending, fallback, requests,
                   updates, failed, propagated>>

\* ask_stream, lines 1312-1315: the final event of process_stream
TakeFinal ==
    /\ entry = "ask_stream"
    /\ as_pc = "stream"
    /\ consumed < Len(psEvents)
    /\ LET chunk == psEvents[consumed + 1]
       IN  /\ chunk.is_final
           /\ pending' = chunk
           /\ IF Len(chunk.citations) = 0
              THEN as_pc' = "fallback" /\ fallback' = StartFallback
              ELSE as_pc' = "finalize" /\ UNCHANGED fallback
    /\ consumed' = consumed + 1
    /\ UNCHANGED <<entry, sessionVars, callVars, streamVars, engine, events, requests, updates, failed,
                   propagated>>

\* an exception leaves process_stream inside the try block of ask_stream
CatchStreamError ==
    /\ entry = "ask_stream"
    /\ as_pc = "stream"
    /\ ps_pc = "raised"
    /\ Fail("stream")
    /\ UNCHANGED <<entry, sessionVars, callVars, streamVars, engine, consumed, pending, fallback, requests,
                   updates>>

(***************************************************************************)
(* get_citations (lines 1500-1523) calls ask(question, for_citations=True),*)
(* and that ask calls get_citations again when its response carries no     *)
(* citations.  fallback.stack holds one entry per nested ask waiting for    *)
(* the citations of the ask below it: TRUE when its own answer cannot be    *)
(* built (message.content = None), so that it returns the apology with no   *)
(* citations whatever it is handed.                                         *)
(***************************************************************************)
\* faulty variant: the RecursionError escapes every handler and ends the call
RecursionErrorEscapes ==
    /\ as_pc' = "done"
    /\ propagated' = TRUE
    /\ UNCHANGED fallback

\* the interpreter raises RecursionError in the deepest call; the except of
\* get_citations (lines 1517-1523) turns it into an empty citation list
RecursionErrorCaught ==
    /\ fallback' = [fallback EXCEPT !.pc = "return", !.result = <<>>]
    /\ UNCHANGED <<as_pc, propagated>>

NestedAsk ==
    /\ as_pc = "fallback"
    /\ fallback.pc = "call"
    /\ \E outcome \in {"prepare fails", "request fails", "cited", "uncited"},
          malformed \in BOOLEAN :
          /\ requests' = IF outcome = "prepare fails" THEN requests ELSE requests + 1
          /\ CASE outcome \in {"prepare fails", "request fails"} ->
                    /\ ~malformed
                    /\ fallback' = [fallback EXCEPT !.pc = "return", !.result = <<>>]
                    /\ UNCHANGED <<as_pc, propagated>>
               [] outcome = "cited" ->
                    /\ \E l \in {<<"u1">>, <<"u2", "u2">>} :
                          fallback' = [fallback EXCEPT
                                         !.pc = "return",
                                         !.result = IF malformed THEN <<>>
                                                    ELSE ListSet(l)]
                    /\ UNCHANGED <<as_pc, propagated>>
               [] outcome = "uncited" ->
                    IF Len(fallback.stack) + 1 < RecursionLimit
                    THEN /\ fallback' = [fallback EXCEPT
                                           !.stack = Append(fallback.stack, malformed)]
                         /\ UNCHANGED <<as_pc, propagated>>
                    ELSE RecursionErrorCaught
    /\ UNCHANGED <<entry, sessionVars, callVars, streamVars, engine, consumed, events, pending, updates,
                   failed>>

\* a nested ask returns its answer to the get_citations of the ask above it
NestedReturn ==
    /\ as_pc = "fallback"
    /\ fallback.pc = "return"
    /\ fallback.stack # <<>>
    /\ LET n == Len(fallback.stack)
       IN  fallback' = [fallback EXCEPT
                          !.stack = Upto(fallback.stack, n - 1),
                          !.result = IF fallback.stack[n] THEN <<>>
                                     ELSE fallback.result]
    /\ UNCHANGED <<entry, sessionVars, callVars, streamVars, engine, as_pc, consumed, events, pending,
                   requests, updates, failed, propagated>>

\* get_citations returns to the ask / ask_stream call
FallbackReturn ==
    /\ as_pc = "fallback"
    /\ fallback.pc = "return"
    /\ fallback.stack = <<>>
    /\ pending' = [pending EXCEPT !.citations = fallback.result]
    /\ fallback' = [pc |-> "idle", stack |-> <<>>, result |-> <<>>]
    /\ as_pc' = "finalize"
    /\ UNCHANGED <<entry, sessionVars, callVars, streamVars, engine, consumed, events, requests, updates,
                   failed, propagated>>

\* faulty variant: the callback is handed the answer as it was before the citation
\* fallback filled in its citations
FinalizeStaleCallback ==
    /\ as_pc = "finalize"
    /\ IF pending.answer = NoneContent
       THEN Fail("answer") /\ UNCHANGED updates
       ELSE IF engine.update_context_callback = "none"
       THEN /\ events' = Append(events, pending)
            /\ as_pc' = IF entry = "ask_stream" THEN "stream" ELSE "done"
            /\ UNCHANGED <<updates, failed, propagated>>
       ELSE /\ updates' = Append(updates, [pending EXCEPT !.citations = <<>>])
            /\ IF engine.update_context_callback = "raises"
               THEN Fail("callback")
               ELSE /\ events' = Append(events, pending)
                    /\ as_pc' = IF entry = "ask_stream" THEN "stream" ELSE "done"
                    /\ UNCHANGED <<failed, propagated>>
    /\ UNCHANGED <<entry, sessionVars, callVars, streamVars, engine, consumed, pending, fallback, requests>>

\* ask lines 1191-1201, ask_stream lines 1317-1327: build the final answer,
\* call update_context_callback, hand the answer to the caller
Finalize ==
    /\ as_pc = "finalize"
    /\ IF pending.answer = NoneContent
       THEN Fail("answer") /\ UNCHANGED updates
       ELSE IF engine.update_context_callback = "none"
       THEN /\ events' = Append(events, pending)
            /\ as_pc' = IF entry = "ask_stream" THEN "stream" ELSE "done"
            /\ UNCHANGED <<updates, failed, propagated>>
       ELSE /\ updates' = Append(updates, pending)
            /\ IF engine.update_context_callback = "raises"
               THEN Fail("callback")
               ELSE /\ events' = Append(events, pending)
                    /\ as_pc' = IF entry = "ask_stream" THEN "stream" ELSE "done"
                    /\ UNCHANGED <<failed, propagated>>
    /\ UNCHANGED <<entry, sessionVars, callVars, streamVars, engine, consumed, pending, fallback, requests>>

\* the for loop of ask_stream ends with process_stream
StreamLoopEnd ==
    /\ entry = "ask_stream"
    /\ as_pc = "stream"
    /\ ps_pc = "done"
    /\ consumed = Len(psEvents)
    /\ as_pc' = "done"
    /\ UNCHANGED <<entry, sessionVars, callVars, streamVars, engine, consumed, events, pending, fallback,
                   requests, updates, failed, propagated>>

\* ask_stream is resumed after the yield of an event that ends it
StreamEnd ==
    /\ entry = "ask_stream"
    /\ as_pc = "last"
    /\ as_pc' = "done"
    /\ UNCHANGED <<entry, sessionVars, callVars, streamVars, engine, consumed, events, pending, fallback,
                   requests, updates, failed, propagated>>

NoEngine == [initialized |-> TRUE, get_context_callback |-> "none",
             update_context_callback |-> "none"]

NoAnswer == Answer(<<>>, <<>>, FALSE)

NoFallback == [pc |-> "idle", stack |-> <<>>, result |-> <<>>]

\* _prepare_ask_request has not run: the question as asked, no model chosen,
\* no request sent to the auxiliary provider
NoPreparation == [question |-> "asked", model |-> "", auxiliary |-> <<>>]

\* an engine on which no session was created
NoSessions ==
    /\ sessions = <<>>
    /\ closed = <<>>
    /\ calls = <<>>
    /\ memory = <<>>

\* a process_stream generator that has not been resumed yet
NewCall(t) ==
    [text |-> t, rest |-> t, chunks |-> <<>>, buffer |-> NewStreamBuffer,
     pc |-> "new", events |-> <<>>]

\* no second generator, no dropped generator
SingleCall ==
    /\ other = NewCall(<<>>)
    /\ abandoned = <<>>
    /\ preparation = NoPreparation

InitStream ==
    /\ entry = "process_stream"
    /\ text \in Texts
    /\ rest = text
    /\ chunks = <<>>
    /\ extractor \in {"cite", "raises"}
    /\ buffer = NewStreamBuffer
    /\ ps_pc = "loop"
    /\ psEvents = <<>>
    /\ leaked = FALSE
    /\ engine = NoEngine
    /\ as_pc = "none"
    /\ consumed = 0
    /\ events = <<>>
    /\ pending = NoAnswer
    /\ fallback = NoFallback
    /\ requests = 0
    /\ updates = <<>>
    /\ failed = ""
    /\ propagated = FALSE
    /\ NoSessions
    /\ SingleCall

NextStream == PullChunk \/ DrainStep \/ Exhausted \/ Return \/ SourceRaises

SpecStream == InitStream /\ [][NextStream]_vars

\* the response texts of the engine runs
AskTexts ==
    {<<>>,
     <<"c">>,
     THINK_BLOCK_START \o <<"c">> \o THINK_BLOCK_END \o <<"c">>,
     <<"c", "\n", "\n", "\n", "c">>}

Callbacks == {"none", "ok", "raises"}

InitAsk ==
    /\ entry \in {"ask", "ask_stream"}
    /\ text \in AskTexts
    /\ rest = text
    /\ chunks = <<>>
    /\ extractor = "response"
    /\ buffer = NewStreamBuffer
    /\ ps_pc = "loop"
    /\ psEvents = <<>>
    /\ leaked = FALSE
    /\ engine \in [initialized : BOOLEAN, get_context_callback : Callbacks,
                   update_context_callback : Callbacks]
    /\ as_pc = "start"
    /\ consumed = 0
    /\ events = <<>>
    /\ pending = NoAnswer
    /\ fallback = NoFallback
    /\ requests = 0
    /\ updates = <<>>
    /\ failed = ""
    /\ propagated = FALSE
    /\ NoSessions
    /\ SingleCall

NextAsk ==
    \/ PullChunk \/ DrainStep \/ Exhausted \/ Return \/ SourceRaises
    \/ PrepareRequest \/ AskCompletion \/ StreamCompletion
    \/ ForwardEvent \/ TakeFinal \/ CatchStreamError
    \/ NestedAsk \/ NestedReturn \/ FallbackReturn
    \/ Finalize \/ StreamLoopEnd \/ StreamEnd

SpecAsk == InitAsk /\ [][NextAsk]_vars
(***************************************************************************)
(* Properties.                                                             *)
(***************************************************************************)
Last(l) == l[Len(l)]

HasMarker(s) == Contains(s, THINK_BLOCK_START) \/ Contains(s, THINK_BLOCK_END)

\* the deltas of the responses pulled so far, in order
RECURSIVE Deltas(_)
Deltas(rs) == IF rs = <<>> THEN <<>> ELSE Head(rs).content \o Deltas(Tail(rs))

\* the answers of the non-final events of es, in order
RECURSIVE NonFinalText(_)
NonFinalText(es) ==
    IF es = <<>> THEN <<>>
    ELSE (IF Head(es).is_final THEN <<>> ELSE Head(es).answer) \o NonFinalText(Tail(es))

\* s without its whitespace characters
RECURSIVE Squeeze(_)
Squeeze(s) ==
    IF s = <<>> THEN <<>>
    ELSE (IF Head(s) \in Whitespace THEN <<>> ELSE <<Head(s)>>) \o Squeeze(Tail(s))

FinalYielded == psEvents # <<>> /\ Last(psEvents).is_final

\* every marker of the text belongs to a complete start...end pair
MarkersPaired == ~HasMarker(RemoveThinkBlocks(text))

\* the text is P start R end S with marker-free P, R, S
OnePair ==
    LET start == Find(text, THINK_BLOCK_START)
        inner == From(text, start + Len(THINK_BLOCK_START))
        end == Find(inner, THINK_BLOCK_END)
    IN  /\ start # -1
        /\ end # -1
        /\ ~HasMarker(Upto(text, start))
        /\ ~HasMarker(Upto(inner, end))
        /\ ~HasMarker(From(inner, end + Len(THINK_BLOCK_END)))

\* a delivered response ends inside a marker: the marker is split over two chunks
CutInsideMarker ==
    \E k \in 1..Len(chunks) :
       LET before == Deltas(Upto(chunks, k))
       IN  \E m \in {THINK_BLOCK_START, THINK_BLOCK_END} :
              \E i \in 1..(Len(m) - 1) :
                 /\ Len(before) >= i
                 /\ MatchAt(text, m, Len(before) - i)

\* C1: the events ask_stream yields hold exactly one final event, the last
\* one: no event follows a final event, no exception reaches the caller, and
\* a call that has ended has yielded its final event.
C1_ExactlyOneFinalLast ==
    entry = "ask_stream" =>
       /\ \A i \in 1..Len(events) : events[i].is_final => i = Len(events)
       /\ ~propagated
       /\ as_pc \in {"last", "done"} => events # <<>> /\ Last(events).is_final

\* a call that ended through the except block after it had yielded events
C1_Witness ==
    /\ entry = "ask_stream"
    /\ as_pc = "done"
    /\ failed = "callback"
    /\ Len(events) >= 2

\* C2: full_answer and the answer of every event hold neither marker
\* (stated for the streams whose markers all belong to complete pairs, where
\* no marker is part of the visible text).
C2_NoMarkerInAnswer ==
    (entry = "process_stream" /\ MarkersPaired) =>
       /\ ~HasMarker(buffer.full_answer)
       /\ \A i \in 1..Len(psEvents) : ~HasMarker(psEvents[i].answer)

\* C3: reasoning text is never leaked: when every "c" of the text lies inside
\* a complete start...end pair, no "c" reaches full_answer or an event, and
\* nothing is appended to full_answer inside a reasoning segment.
C3_NoReasoningLeaked ==
    (entry = "process_stream" /\ MarkersPaired
        /\ ~Contains(RemoveThinkBlocks(text), <<"c">>)) =>
       /\ ~Contains(buffer.full_answer, <<"c">>)
       /\ \A i \in 1..Len(psEvents) : ~Contains(psEvents[i].answer, <<"c">>)
       /\ ~leaked

\* C4: for a text with exactly one complete pair, however it is cut into
\* chunks, the final event carries the text without the pair and its interior
\* (compared up to whitespace, whose fidelity around a removed pair is not
\* promised).
C4_OnePairRemoved ==
    (entry = "process_stream" /\ FinalYielded /\ OnePair) =>
       Squeeze(Last(psEvents).answer) = Squeeze(RemoveThinkBlocks(text))

\* C5: for a stream without any marker the final answer is the concatenation
\* of the chunks, verbatim and in order; empty chunks contribute nothing.
C5_VerbatimWithoutMarkers ==
    (entry = "process_stream" /\ FinalYielded /\ ~HasMarker(Deltas(chunks))) =>
       Last(psEvents).answer = Deltas(chunks)

\* a finished marker-free stream of an empty chunk and a chunk with blanks
C5_Witness ==
    /\ entry = "process_stream"
    /\ ps_pc = "done"
    /\ ~HasMarker(Deltas(chunks))
    /\ Len(chunks) = 2
    /\ chunks[1].content = <<>>
    /\ Last(psEvents).answer = <<" ", "c", " ">>

IsApology(e) == e = Answer(STREAM_ERROR_ANSWER, <<>>, TRUE)

C8_FailureYieldsApology ==
    (entry = "ask_stream" /\ failed \in {"request", "stream"}) =>
       /\ ~propagated
       /\ as_pc \in {"last", "done"}
       /\ Last(events) = Answer(STREAM_ERROR_ANSWER, <<>>, TRUE)
       /\ \A i \in 1..(Len(events) - 1) : ~events[i].is_final

\* the chunk source raised after an event with citations had been yielded
C8_Witness ==
    /\ entry = "ask_stream"
    /\ as_pc = "done"
    /\ failed = "stream"
    /\ Len(events) >= 2
    /\ events[1].citations # <<>>

\* C9: blocking ask raises nothing and returns exactly one answer, which is
\* final; when the completion request fails it is Constants.ERROR_DEFAULT
\* without citations.
C9_AskReturnsOneFinalAnswer ==
    entry = "ask" =>
       /\ ~propagated
       /\ as_pc # "done" => events = <<>>
       /\ as_pc = "done" => Len(events) = 1 /\ events[1].is_final
       /\ failed = "request" =>
             as_pc = "done" /\ events = <<Answer(ERROR_DEFAULT, <<>>, TRUE)>>

\* an ask whose completion request failed
C9_Witness ==
    /\ entry = "ask"
    /\ as_pc = "done"
    /\ failed = "request"
    /\ requests = 1

CallEnded == as_pc = "done" /\ events # <<>> /\ Last(events).is_final

InitTerminate == InitAsk /\ ~Contains(text, THINK_BLOCK_START)

\* the consumer keeps iterating and every provider call returns
SpecAskFair == InitTerminate /\ [][NextAsk]_vars /\ WF_vars(NextAsk)

\* C11: blocking and streaming agree: for a text whose markers all belong to
\* complete pairs, however it is cut into chunks, the answer of the blocking
\* path (_clean_ask_response of the whole text) is the concatenation of the
\* answers of the non-final events of process_stream (compared up to
\* whitespace, which the blocking path normalises).
C11_BlockingEqualsStreaming ==
    (entry = "process_stream" /\ FinalYielded /\ MarkersPaired) =>
       Squeeze(CleanAskResponse(text)) = Squeeze(NonFinalText(psEvents))

NoDuplicates(l) == \A i, j \in DOMAIN l : l[i] = l[j] => i = j

\* C12: citations are deduplicated by string equality: in every event yielded
\* by process_stream or ask_stream and in the answer returned by ask, no
\* citation occurs more than once, however many chunks or harvester calls
\* reported it.
C12_CitationsDeduplicated ==
    /\ NoDuplicates(buffer.citations)
    /\ \A i \in 1..Len(psEvents) : NoDuplicates(psEvents[i].citations)
    /\ \A i \in 1..Len(events) : NoDuplicates(events[i].citations)

\* a finished stream whose harvester reported "u1" for an earlier event and
\* again at the end
C12_Witness ==
    /\ entry = "process_stream"
    /\ extractor = "cite"
    /\ ps_pc = "done"
    /\ Len(psEvents) >= 3
    /\ psEvents[2].citations = <<"u1">>
    /\ Last(psEvents).citations = <<"u1">>

\* the answer texts and is_final flags of the events es
TextsAndFlags(es) == [i \in DOMAIN es |-> <<es[i].answer, es[i].is_final>>]

IsPrefix(p, l) == Len(p) <= Len(l) /\ p = Upto(l, Len(p))

C15_CallbacksFailSoft == failed \notin {"context", "callback"}

(***************************************************************************)
(* Sessions: AuxKnow.create_session / get_session / _close_session and the *)
(* entry points of AuxKnowSession.  A session object is named by the id    *)
(* uuid4 gave it; closed maps every session object created so far to its   *)
(* closed flag, sessions is the registry dict of the engine.               *)
(***************************************************************************)
MaxSessions == 2
MaxCalls == 3

SessionIds == 1..MaxSessions

\* the session objects created so far
Created == DOMAIN closed

\* AuxKnow.get_session: <<>> stands for None
GetSession(session_id) ==
    IF session_id \in DOMAIN sessions THEN <<sessions[session_id]>> ELSE <<>>

\* AuxKnow.create_session: uuid4 returns an id no session has had
CreateSession ==
    /\ entry = "session"
    /\ \E session_id \in SessionIds \ Created :
          /\ sessions' = [id \in DOMAIN sessions \cup {session_id} |->
                            IF id = session_id THEN session_id ELSE sessions[id]]
          /\ closed' = [id \in Created \cup {session_id} |->
                          IF id = session_id THEN FALSE ELSE closed[id]]
          /\ memory' = [id \in Created \cup {session_id} |->
                          IF id = session_id THEN <<>> ELSE memory[id]]
    /\ UNCHANGED <<entry, callVars, streamVars, askVars, calls>>

Call(op, session, error, forwarded) ==
    [op |-> op, session |-> session, error |-> error, forwarded |-> forwarded]

\* faulty variant: the session is marked closed but stays in the registry
CloseSessionKeepsEntry(session) ==
    /\ entry = "session"
    /\ session \in Created
    /\ Len(calls) < MaxCalls
    /\ closed' = [closed EXCEPT ![session] = TRUE]
    /\ calls' = Append(calls, Call("close", session, "", FALSE))
    /\ UNCHANGED <<entry, callVars, streamVars, askVars, sessions, memory>>

\* faulty variant: closing a session empties the registry
CloseSessionClearsRegistry(session) ==
    /\ entry = "session"
    /\ session \in Created
    /\ Len(calls) < MaxCalls
    /\ IF closed[session]
       THEN UNCHANGED <<sessions, closed>>
       ELSE /\ closed' = [closed EXCEPT ![session] = TRUE]
            /\ sessions' = [id \in {} |-> id]
    /\ calls' = Append(calls, Call("close", session, "", FALSE))
    /\ UNCHANGED <<entry, callVars, streamVars, askVars, memory>>

\* AuxKnowSession.close -> AuxKnow._close_session
CloseSession(session) ==
    /\ entry = "session"
    /\ session \in Created
    /\ Len(calls) < MaxCalls
    /\ IF closed[session]
       THEN UNCHANGED <<sessions, closed>>
       ELSE /\ closed' = [closed EXCEPT ![session] = TRUE]
            /\ sessions' = [id \in DOMAIN sessions \ {session} |-> sessions[id]]
    /\ calls' = Append(calls, Call("close", session, "", FALSE))
    /\ UNCHANGED <<entry, callVars, streamVars, askVars, memory>>

\* faulty variant: the call is handed to the engine whatever the closed flag says
SessionAskUnchecked(session, op) ==
    /\ entry = "session"
    /\ session \in Created
    /\ Len(calls) < MaxCalls
    /\ calls' = Append(calls, Call(op, session, "", TRUE))
    /\ UNCHANGED <<entry, callVars, streamVars, askVars, sessions, closed, memory>>

\* AuxKnowSession.ask / ask_stream up to the point where the call is handed
\* to AuxKnow.ask / ask_stream with the context callbacks built; both are
\* plain functions, so the closed check runs when they are called
SessionAsk(session, op) ==
    /\ entry = "session"
    /\ session \in Created
    /\ Len(calls) < MaxCalls
    /\ calls' = Append(calls,
                       IF closed[session]
                       THEN Call(op, session, "SessionClosedError", FALSE)
                       ELSE Call(op, session, "", TRUE))
    /\ UNCHANGED <<entry, callVars, streamVars, askVars, sessions, closed, memory>>

InitSession ==
    /\ entry = "session"
    /\ text = <<>>
    /\ rest = <<>>
    /\ chunks = <<>>
    /\ extractor = "response"
    /\ buffer = NewStreamBuffer
    /\ ps_pc = "loop"
    /\ psEvents = <<>>
    /\ leaked = FALSE
    /\ engine = NoEngine
    /\ as_pc = "none"
    /\ consumed = 0
    /\ events = <<>>
    /\ pending = NoAnswer
    /\ fallback = NoFallback
    /\ requests = 0
    /\ updates = <<>>
    /\ failed = ""
    /\ propagated = FALSE
    /\ NoSessions
    /\ SingleCall

NextSession ==
    \/ CreateSession
    \/ \E session \in SessionIds : CloseSession(session)
    \/ \E session \in SessionIds, op \in {"ask", "ask_stream"} : SessionAsk(session, op)

SpecSession == InitSession /\ [][NextSession]_vars

\* C16: once close() has returned, every later ask or ask_stream on that
\* session raises SessionClosedError when it is called, and is not handed to
\* the engine: it issues no provider request and invokes no context callback.
C16_ClosedSessionRejectsCalls ==
    \A i, j \in 1..Len(calls) :
       (i < j /\ calls[i].op = "close" /\ calls[j].op \in {"ask", "ask_stream"}
          /\ calls[j].session = calls[i].session) =>
             calls[j].error = "SessionClosedError" /\ ~calls[j].forwarded

\* a session that answered a call, was closed, and then rejected ask_stream
C16_Witness ==
    /\ Len(calls) = 3
    /\ calls[1] = Call("ask", calls[1].session, "", TRUE)
    /\ calls[2] = Call("close", calls[1].session, "", FALSE)
    /\ calls[3] = Call("ask_stream", calls[1].session, "SessionClosedError", FALSE)

\* C17: get_session(id) returns the session with that id exactly when the
\* engine created it and it has not been closed; after close() the closed
\* flag is set and get_session returns None; every session in the registry
\* is open.
C17_RegistryHoldsOpenSessions ==
    /\ \A id \in SessionIds :
          GetSession(id) = IF id \in Created /\ ~closed[id] THEN <<id>> ELSE <<>>
    /\ \A id \in DOMAIN sessions : ~closed[sessions[id]]
    /\ \A i \in 1..Len(calls) :
          calls[i].op = "close" =>
             closed[calls[i].session] /\ GetSession(calls[i].session) = <<>>

\* two sessions were created and one of them closed, twice
C17_Witness ==
    /\ Cardinality(Created) = 2
    /\ Cardinality(DOMAIN sessions) = 1
    /\ Len(calls) >= 2
    /\ calls[1].op = "close"
    /\ calls[2] = calls[1]

(***************************************************************************)
(* A chunk source that delivers every marker as a chunk of its own.        *)
(***************************************************************************)
MaxWholePieces == 6

WholePieceTexts == {Concat(p) : p \in PieceSeqs(MaxWholePieces)}

\* the first piece of a non-empty text built from Pieces
NextPiece(s) ==
    IF MatchAt(s, THINK_BLOCK_START, 0) THEN THINK_BLOCK_START
    ELSE IF MatchAt(s, THINK_BLOCK_END, 0) THEN THINK_BLOCK_END
    ELSE Upto(s, 1)

\* the source delivers the next piece as one chunk
PullPiece ==
    /\ Resumable
    /\ ps_pc = "loop"
    /\ rest # <<>>
    /\ LET response == Response(NextPiece(rest), NoCitations)
       IN  /\ chunks' = Append(chunks, response)
           /\ rest' = From(rest, Len(response.content))
           /\ Apply(HandleResponse(buffer, response, extractor))
    /\ UNCHANGED <<entry, sessionVars, callVars, text, extractor, askVars>>

InitPieces ==
    /\ entry = "process_stream"
    /\ text \in WholePieceTexts
    /\ rest = text
    /\ chunks = <<>>
    /\ extractor = "cite"
    /\ buffer = NewStreamBuffer
    /\ ps_pc = "loop"
    /\ psEvents = <<>>
    /\ leaked = FALSE
    /\ engine = NoEngine
    /\ as_pc = "none"
    /\ consumed = 0
    /\ events = <<>>
    /\ pending = NoAnswer
    /\ fallback = NoFallback
    /\ requests = 0
    /\ updates = <<>>
    /\ failed = ""
    /\ propagated = FALSE
    /\ NoSessions
    /\ SingleCall

NextPieces == PullPiece \/ DrainStep \/ Exhausted \/ Return

SpecPieces == InitPieces /\ [][NextPieces]_vars

\* the chunks of rs received outside the reasoning segments, in order: a
\* start chunk opens a segment, the next end chunk closes it
RECURSIVE OutsideSegments(_, _)
OutsideSegments(rs, inside) ==
    IF rs = <<>> THEN <<>>
    ELSE LET chunk == Head(rs).content
         IN  IF inside
             THEN OutsideSegments(Tail(rs), chunk # THINK_BLOCK_END)
             ELSE IF chunk = THINK_BLOCK_START THEN OutsideSegments(Tail(rs), TRUE)
             ELSE chunk \o OutsideSegments(Tail(rs), FALSE)

\* every end chunk closes a segment
RECURSIVE WellFormed(_, _)
WellFormed(rs, inside) ==
    IF rs = <<>> THEN TRUE
    ELSE LET chunk == Head(rs).content
         IN  IF inside THEN WellFormed(Tail(rs), chunk # THINK_BLOCK_END)
             ELSE chunk # THINK_BLOCK_END
                     /\ WellFormed(Tail(rs), chunk = THINK_BLOCK_START)

\* C18: when every marker arrives as a chunk of its own, for any number of
\* reasoning segments, the events carry the chunks received outside the
\* segments and nothing else: no text of a chunk received between a start
\* chunk and its end chunk is appended or yielded, and the final answer is
\* the in-order concatenation of the chunks outside the segments.
C18_WholeMarkerChunks ==
    (entry = "process_stream" /\ WellFormed(chunks, FALSE)) =>
       /\ ~leaked
       /\ ps_pc = "loop" => NonFinalText(psEvents) = OutsideSegments(chunks, FALSE)
       /\ FinalYielded => Last(psEvents).answer = OutsideSegments(chunks, FALSE)

\* a finished stream of two reasoning segments with visible text between
C18_Witness ==
    /\ entry = "process_stream"
    /\ ps_pc = "done"
    /\ Len(chunks) = 6
    /\ text = THINK_BLOCK_START \o <<"c">> \o THINK_BLOCK_END \o <<" ">>
                 \o THINK_BLOCK_START \o THINK_BLOCK_END
    /\ Last(psEvents).answer = <<" ">>

\* C19: a chunk holding a complete pair is handled like any other input: for
\* the single-chunk stream P start R end S with marker-free P, R, S the final
\* answer is P followed by S (compared up to whitespace).
C19_PairInOneChunk ==
    (entry = "process_stream" /\ FinalYielded /\ OnePair
        /\ chunks = <<Response(text, NoCitations)>>) =>
       Squeeze(Last(psEvents).answer) = Squeeze(RemoveThinkBlocks(text))

UnclosedSegment ==
    LET start == Find(text, THINK_BLOCK_START)
    IN  /\ start # -1
        /\ ~HasMarker(Upto(text, start))
        /\ ~HasMarker(From(text, start + Len(THINK_BLOCK_START)))

MaxPartLen == 1

RECURSIVE PartsUpTo(_)
PartsUpTo(n) ==
    IF n = 0 THEN {<<>>}
    ELSE LET shorter == PartsUpTo(n - 1)
         IN  shorter \cup {Append(p, c) : p \in {s \in shorter : Len(s) = n - 1},
                                          c \in {"c", " "}}

\* the marker-free parts V and R of a text
Parts == PartsUpTo(MaxPartLen)

Segment(r) == THINK_BLOCK_START \o r \o THINK_BLOCK_END

\* V0 <think>R1</think> V1 <think>R2</think> V2
TwoSegmentTexts ==
    {v0 \o Segment(r1) \o v1 \o Segment(r2) \o v2 :
        v0 \in Parts, r1 \in Parts, v1 \in Parts, r2 \in Parts, v2 \in Parts}

WholeChunkTexts ==
    Parts \cup {v0 \o Segment(r1) \o v1 : v0 \in Parts, r1 \in Parts, v1 \in Parts}
          \cup TwoSegmentTexts

\* the source delivers all of the text as one chunk
PullWhole ==
    /\ Resumable
    /\ ps_pc = "loop"
    /\ rest # <<>>
    /\ LET response == Response(rest, NoCitations)
       IN  /\ chunks' = Append(chunks, response)
           /\ rest' = <<>>
           /\ Apply(HandleResponse(buffer, response, extractor))
    /\ UNCHANGED <<entry, sessionVars, callVars, text, extractor, askVars>>

InitWhole ==
    /\ entry = "process_stream"
    /\ text \in WholeChunkTexts
    /\ rest = text
    /\ chunks = <<>>
    /\ extractor = "cite"
    /\ buffer = NewStreamBuffer
    /\ ps_pc = "loop"
    /\ psEvents = <<>>
    /\ leaked = FALSE
    /\ engine = NoEngine
    /\ as_pc = "none"
    /\ consumed = 0
    /\ events = <<>>
    /\ pending = NoAnswer
    /\ fallback = NoFallback
    /\ requests = 0
    /\ updates = <<>>
    /\ failed = ""
    /\ propagated = FALSE
    /\ NoSessions
    /\ SingleCall

NextWhole == PullWhole \/ DrainStep \/ Exhausted \/ Return

SpecWhole == InitWhole /\ [][NextWhole]_vars

\* C22: several complete segments arriving within one chunk are all drained:
\* once the chunk V0 <think>R1</think> V1 <think>R2</think> V2 has been
\* handled, full_answer is V0 V1 V2 (compared up to whitespace) and holds no
\* marker.
C22_SegmentsOfOneChunkDrained ==
    (entry = "process_stream" /\ text \in TwoSegmentTexts
        /\ chunks = <<Response(text, NoCitations)>> /\ ps_pc = "loop") =>
       /\ ~HasMarker(buffer.full_answer)
       /\ Squeeze(buffer.full_answer) = Squeeze(RemoveThinkBlocks(text))

(***************************************************************************)
(* Two process_stream generators over separate chunk sources, advanced in  *)
(* any interleaving.  The first is the generator of the stream variables,  *)
(* the second lives in other and receives its text piece by piece.         *)
(***************************************************************************)
\* faulty variant: the citations default is one list object shared by the buffers
FreshStreamBufferSharedList(peer) ==
    [NewStreamBuffer EXCEPT !.citations = peer.citations]

\* line 119, buffer = StreamBuffer(): every field gets a value of its own
\* (citations through default_factory), whatever a generator already running
\* holds in its buffer peer
FreshStreamBuffer(peer) == NewStreamBuffer

\* the buffer of the second generator at its next resume
OtherBuffer == IF other.pc = "new" THEN FreshStreamBuffer(buffer) ELSE other.buffer

OtherApply(step) ==
    [other EXCEPT !.buffer = step.buf, !.events = other.events \o step.yields,
                  !.pc = step.pc]

OtherPull ==
    /\ entry = "process_stream"
    /\ other.pc \in {"new", "loop"}
    /\ other.rest # <<>>
    /\ LET response == Response(NextPiece(other.rest), NoCitations)
           step == HandleResponse(OtherBuffer, response, extractor)
       IN  other' = [OtherApply(step) EXCEPT
                       !.rest = From(other.rest, Len(response.content)),
                       !.chunks = Append(other.chunks, response)]
    /\ UNCHANGED <<entry, streamVars, askVars, sessionVars, abandoned, preparation>>

OtherDrain ==
    /\ entry = "process_stream"
    /\ other.pc = "drain"
    /\ other' = OtherApply(DrainIteration(other.buffer, extractor))
    /\ UNCHANGED <<entry, streamVars, askVars, sessionVars, abandoned, preparation>>

OtherExhausted ==
    /\ entry = "process_stream"
    /\ other.pc \in {"new", "loop"}
    /\ other.rest = <<>>
    /\ other' = OtherApply(Finish(OtherBuffer, extractor))
    /\ UNCHANGED <<entry, streamVars, askVars, sessionVars, abandoned, preparation>>

OtherReturn ==
    /\ entry = "process_stream"
    /\ other.pc = "final"
    /\ other' = [other EXCEPT !.pc = "done"]
    /\ UNCHANGED <<entry, streamVars, askVars, sessionVars, abandoned, preparation>>

\* the texts of the two streams
TwoCallTexts ==
    {<<" ">>, <<"c", " ">>, THINK_BLOCK_START \o <<"c">> \o THINK_BLOCK_END \o <<" ">>}

InitTwo ==
    /\ entry = "process_stream"
    /\ text \in TwoCallTexts
    /\ rest = text
    /\ chunks = <<>>
    /\ extractor = "cite"
    /\ buffer = NewStreamBuffer
    /\ ps_pc = "loop"
    /\ psEvents = <<>>
    /\ leaked = FALSE
    /\ engine = NoEngine
    /\ as_pc = "none"
    /\ consumed = 0
    /\ events = <<>>
    /\ pending = NoAnswer
    /\ fallback = NoFallback
    /\ requests = 0
    /\ updates = <<>>
    /\ failed = ""
    /\ propagated = FALSE
    /\ NoSessions
    /\ \E t \in TwoCallTexts : other = NewCall(t)
    /\ abandoned = <<>>
    /\ preparation = NoPreparation

NextTwo ==
    \/ PullChunk \/ DrainStep \/ Exhausted \/ Return
    \/ OtherPull \/ OtherDrain \/ OtherExhausted \/ OtherReturn

SpecTwo == InitTwo /\ [][NextTwo]_vars

\* the events evs of a generator at position pc are those process_stream
\* yields when it runs alone over the responses rs
AsWhenAlone(pc, evs, rs) ==
    /\ pc \in {"new", "loop"} => evs = RunChunks(NewStreamBuffer, rs, extractor).yields
    /\ pc = "drain" => IsPrefix(evs, RunChunks(NewStreamBuffer, rs, extractor).yields)
    /\ pc \in {"final", "done"} => evs = ProcessStream(rs, extractor)

\* C23: concurrent calls are independent: in every interleaving of two
\* process_stream generators over separate chunk sources each yields the
\* events (answers, citations, is_final) it yields when run alone over its
\* own chunks.
C23_ConcurrentCallsIndependent ==
    entry = "process_stream" =>
       /\ AsWhenAlone(ps_pc, psEvents, chunks)
       /\ AsWhenAlone(other.pc, other.events, other.chunks)

\* the first generator is suspended with a citation found, the second one
\* has been started after that and is suspended inside a reasoning segment
C23_Witness ==
    /\ entry = "process_stream"
    /\ ps_pc = "drain"
    /\ buffer.citations = <<"u1">>
    /\ ~buffer.is_in_think_block
    /\ other.pc = "loop"
    /\ Len(other.chunks) = 2
    /\ other.buffer.is_in_think_block
    /\ other.buffer.citations = <<>>

(***************************************************************************)
(* A consumer that drops an ask_stream generator before its final event    *)
(* and calls ask_stream again on the same engine.                          *)
(***************************************************************************)
\* the consumer stops iterating after a non-final event; the generator is
\* closed at its yield (GeneratorExit is not an Exception, the except block
\* does not run) and a new call starts with locals of its own; one call is
\* dropped per behaviour
Abandon ==
    /\ entry = "ask_stream"
    /\ as_pc = "stream"
    /\ events # <<>>
    /\ ~Last(events).is_final
    /\ abandoned = <<>>
    /\ abandoned' = Append(abandoned,
                           [yielded |-> Len(events), updates |-> updates,
                            engine |-> engine, sessions |-> sessions])
    /\ rest' = text
    /\ chunks' = <<>>
    /\ buffer' = NewStreamBuffer
    /\ ps_pc' = "loop"
    /\ psEvents' = <<>>
    /\ leaked' = FALSE
    /\ as_pc' = "start"
    /\ consumed' = 0
    /\ events' = <<>>
    /\ pending' = NoAnswer
    /\ fallback' = NoFallback
    /\ UNCHANGED <<entry, sessionVars, other, preparation, text, extractor, engine, requests,
                   updates, failed, propagated>>

InitAbandon == InitAsk /\ entry = "ask_stream"

NextAbandon ==
    \/ PullChunk \/ DrainStep \/ Exhausted \/ Return \/ SourceRaises
    \/ PrepareRequest \/ StreamCompletion
    \/ ForwardEvent \/ TakeFinal \/ CatchStreamError
    \/ NestedAsk \/ NestedReturn \/ FallbackReturn
    \/ Finalize \/ StreamLoopEnd \/ StreamEnd
    \/ Abandon

SpecAbandon == InitAbandon /\ [][NextAbandon]_vars

\* C24: when the consumer drops an ask_stream generator before its final
\* event, the update-context callback of that call is never invoked (every
\* invocation belongs to a call that has built its final event), the session
\* registry and the engine are as they were, and a later call yields the
\* events that follow from its own chunks alone.
C24_AbandonedCallLeavesNoTrace ==
    entry = "ask_stream" =>
       /\ updates # <<>> => events # <<>> /\ Last(events).is_final
       /\ \A k \in 1..Len(abandoned) :
             /\ abandoned[k].updates = <<>>
             /\ abandoned[k].engine = engine
             /\ abandoned[k].sessions = sessions
       /\ (CallEnded /\ engine.initialized /\ failed = "") =>
             LET alone == ProcessStream(chunks, "response")
             IN  /\ TextsAndFlags(events) = TextsAndFlags(alone)
                 /\ \A i \in 1..(Len(events) - 1) : events[i] = alone[i]

\* a call was dropped after it had forwarded an event; the next call ended
\* with events of its own and handed its final answer to the callback
C24_Witness ==
    /\ entry = "ask_stream"
    /\ Len(abandoned) >= 1
    /\ abandoned[1].yielded >= 1
    /\ CallEnded
    /\ failed = ""
    /\ engine.update_context_callback = "ok"
    /\ Len(events) >= 2
    /\ updates = <<Last(events)>>

\* C25: the citation fallback runs only for a call whose citation list is
\* empty when its final event is built, and it adds at most one completion
\* request to the one the call makes itself.
C25_FallbackOnceIffUncited ==
    /\ (as_pc = "fallback" \/ fallback.pc # "idle") => pending.citations = <<>>
    /\ requests <= 2

(***************************************************************************)
(* Blocking ask on response texts made of newlines, visible characters and *)
(* reasoning segments.                                                     *)
(***************************************************************************)
MaxCleanPieces == 4

CleanPieces == {<<"\n">>, <<"c">>, THINK_BLOCK_START \o <<"\n">> \o THINK_BLOCK_END}

RECURSIVE CleanPieceSeqs(_)
CleanPieceSeqs(n) ==
    IF n = 0 THEN {<<>>}
    ELSE LET shorter == CleanPieceSeqs(n - 1)
         IN  shorter \cup {Append(p, q) : p \in {s \in shorter : Len(s) = n - 1},
                                          q \in CleanPieces}

CleanTexts == {Concat(p) : p \in CleanPieceSeqs(MaxCleanPieces)}

InitClean ==
    /\ entry = "ask"
    /\ text \in CleanTexts
    /\ rest = text
    /\ chunks = <<>>
    /\ extractor = "response"
    /\ buffer = NewStreamBuffer
    /\ ps_pc = "loop"
    /\ psEvents = <<>>
    /\ leaked = FALSE
    /\ engine \in [initialized : BOOLEAN, get_context_callback : Callbacks,
                   update_context_callback : Callbacks]
    /\ as_pc = "start"
    /\ consumed = 0
    /\ events = <<>>
    /\ pending = NoAnswer
    /\ fallback = NoFallback
    /\ requests = 0
    /\ updates = <<>>
    /\ failed = ""
    /\ propagated = FALSE
    /\ NoSessions
    /\ SingleCall

NextClean ==
    \/ PrepareRequest \/ AskCompletion
    \/ NestedAsk \/ NestedReturn \/ FallbackReturn
    \/ Finalize

SpecClean == InitClean /\ [][NextClean]_vars

ThreeNewlines == <<"\n", "\n", "\n">>

\* C26: the answer a successful blocking ask returns holds no run of three
\* or more newline characters.
C26_BlankLinesCollapsed ==
    (entry = "ask" /\ CallEnded /\ engine.initialized /\ failed = "")
        => ~Contains(Last(events).answer, ThreeNewlines)

(***************************************************************************)
(* The memory of a session.  AuxKnowSession._update_context is the default *)
(* update_context_callback of a session's ask / ask_stream; it stores one  *)
(* memory packet per answer through AuxKnowMemory.update_memory.           *)
(***************************************************************************)
\* the default of the id parameter of update_memory, str(uuid4()) evaluated
\* once, when the method is defined
UPDATE_MEMORY_DEFAULT_ID == "id drawn when update_memory was defined"

\* AuxKnowMemory.update_memory: InMemoryVectorStore.add_documents keeps its
\* documents in a dictionary keyed by the document id
UpdateMemory(store, data, id) ==
    [d \in DOMAIN store \cup {id} |-> IF d = id THEN data ELSE store[d]]

\* the memory packet of _update_context, with the packet id it draws
MemoryPacket(memory_packet_id, session, op) ==
    [memory_packet_id |-> memory_packet_id, session |-> session, question |-> op]

\* AuxKnowSession._update_context: update_memory is called with the packet
\* alone, the packet id is part of the packet text only
UpdateContext(store, memory_packet) ==
    UpdateMemory(store, memory_packet, UPDATE_MEMORY_DEFAULT_ID)

\* AuxKnowSession.ask / ask_stream on an open session whose engine call
\* succeeds: the final answer is handed to the session's _update_context
SessionAskAnswered(session, op) ==
    /\ entry = "session"
    /\ session \in Created
    /\ ~closed[session]
    /\ Len(calls) < MaxCalls
    /\ calls' = Append(calls, Call(op, session, "", TRUE))
    /\ LET memory_packet == MemoryPacket(Len(updates) + 1, session, op)
       IN  /\ updates' = Append(updates, memory_packet)
           /\ memory' = [memory EXCEPT
                           ![session] = UpdateContext(memory[session], memory_packet)]
    /\ UNCHANGED <<entry, callVars, streamVars, sessions, closed, engine, as_pc,
                   consumed, events, pending, fallback, requests, failed, propagated>>

NextMemory ==
    \/ CreateSession
    \/ \E session \in SessionIds : CloseSession(session)
    \/ \E session \in SessionIds, op \in {"ask", "ask_stream"} : SessionAsk(session, op)
    \/ \E session \in SessionIds, op \in {"ask", "ask_stream"} :
          SessionAskAnswered(session, op)

SpecMemory == InitSession /\ [][NextMemory]_vars

\* the packets handed to the memory of a session so far
PacketsOf(session) == {i \in DOMAIN updates : updates[i].session = session}

\* C27: after n successful asks on a session its memory holds n packets,
\* each under a document id of its own, and every packet stored earlier is
\* still there.
C27_MemoryKeepsEveryPacket ==
    entry = "session" =>
       \A session \in Created :
          /\ Cardinality(DOMAIN memory[session]) = Cardinality(PacketsOf(session))
          /\ \A i \in PacketsOf(session) :
                \E d \in DOMAIN memory[session] : memory[session][d] = updates[i]

(***************************************************************************)
(* _prepare_ask_request under the mode flags of the configuration and of   *)
(* the call: the question (restructured or not), the model and the prompt  *)
(* augmentation.  preparation.auxiliary lists the requests sent to the     *)
(* auxiliary provider (self.llm).                                          *)
(***************************************************************************)
DEFAULT_MODELS ==
    [standard |-> "sonar", perplexity |-> "sonar-pro",
     deep_research |-> "sonar-deep-research",
     prompt_augmentation |-> "gpt-4o-mini", fast_mode |-> "sonar"]

Configs ==
    [fast_mode : BOOLEAN, enable_reasoning : BOOLEAN, auto_model_routing : BOOLEAN,
     auto_query_restructuring : BOOLEAN, auto_prompt_augment : BOOLEAN]

ModeArguments == [fast_mode : BOOLEAN, deep_research : BOOLEAN, enable_reasoning : BOOLEAN]

\* faulty variant: the fast_mode of the configuration is not consulted
FastModeArgumentOnly(config, fast_mode) == fast_mode

\* _prepare_ask_request, line 1074
FastMode(config, fast_mode) == config.fast_mode \/ fast_mode

\* _get_model: the branch taken, named by the key of DEFAULT_MODELS it reads
\* or "route" for the call of the router
GetModel(config, deep_research, fast_mode_argument, enable_reasoning_argument) ==
    LET fast_mode == config.fast_mode \/ fast_mode_argument
        enable_reasoning == config.enable_reasoning \/ enable_reasoning_argument
    IN  IF (fast_mode /\ deep_research) \/ (fast_mode /\ enable_reasoning)
        THEN "fast_mode"
        ELSE IF fast_mode THEN "fast_mode"
        ELSE IF deep_research /\ enable_reasoning THEN "reasoning"
        ELSE IF deep_research THEN "deep_research"
        ELSE IF enable_reasoning /\ ~config.auto_model_routing THEN "reasoning"
        ELSE IF config.auto_model_routing THEN "route"
        ELSE "standard"

\* _get_ask_question_and_model, lines 1404-1407: __restructure_query sends
\* one request and returns the restructured query, or the query as asked
\* when the request fails
RestructureQuery ==
    /\ entry = "ask"
    /\ as_pc = "start"
    /\ LET fast_mode == FastMode(engine.config, engine.arguments.fast_mode)
       IN  IF ~fast_mode /\ engine.config.auto_query_restructuring
           THEN \E question \in {"restructured", "asked"} :
                   preparation' = [preparation EXCEPT
                                     !.question = question,
                                     !.auxiliary = Append(@, "restructure")]
           ELSE UNCHANGED preparation
    /\ as_pc' = "model"
    /\ UNCHANGED <<entry, sessionVars, other, abandoned, streamVars, engine, consumed,
                   events, pending, fallback, requests, updates, failed, propagated>>

\* _get_ask_question_and_model, lines 1409-1414: _get_model.  The key
\* "reasoning" is not in DEFAULT_MODELS (KeyError), and the router reads
\* Constants.MODEL_SONAR_REASONING, which Constants does not define, before
\* it sends its request (AttributeError); both reach the except of ask
SelectModel ==
    /\ entry = "ask"
    /\ as_pc = "model"
    /\ LET fast_mode == FastMode(engine.config, engine.arguments.fast_mode)
           key == GetModel(engine.config, engine.arguments.deep_research, fast_mode,
                           engine.arguments.enable_reasoning)
       IN  IF key \in DOMAIN DEFAULT_MODELS
           THEN /\ preparation' = [preparation EXCEPT !.model = DEFAULT_MODELS[key]]
                /\ as_pc' = "augment"
                /\ UNCHANGED <<events, failed, propagated>>
           ELSE /\ Fail("model")
                /\ UNCHANGED preparation
    /\ UNCHANGED <<entry, sessionVars, other, abandoned, streamVars, engine, consumed,
                   pending, fallback, requests, updates>>

\* _get_augmented_prompt: _get_prompt_augmentation_segment sends one request
AugmentPrompt ==
    /\ entry = "ask"
    /\ as_pc = "augment"
    /\ LET fast_mode == FastMode(engine.config, engine.arguments.fast_mode)
       IN  IF ~fast_mode /\ engine.config.auto_prompt_augment
           THEN preparation' = [preparation EXCEPT !.auxiliary = Append(@, "augment")]
           ELSE UNCHANGED preparation
    /\ as_pc' = "request"
    /\ UNCHANGED <<entry, sessionVars, other, abandoned, streamVars, engine, consumed,
                   events, pending, fallback, requests, updates, failed, propagated>>

InitPrepare ==
    /\ entry = "ask"
    /\ text = <<>>
    /\ rest = <<>>
    /\ chunks = <<>>
    /\ extractor = "response"
    /\ buffer = NewStreamBuffer
    /\ ps_pc = "loop"
    /\ psEvents = <<>>
    /\ leaked = FALSE
    /\ \E config \in Configs, arguments \in ModeArguments :
          engine = [initialized |-> TRUE, get_context_callback |-> "none",
                    update_context_callback |-> "none", config |-> config,
                    arguments |-> arguments]
    /\ as_pc = "start"
    /\ consumed = 0
    /\ events = <<>>
    /\ pending = NoAnswer
    /\ fallback = NoFallback
    /\ requests = 0
    /\ updates = <<>>
    /\ failed = ""
    /\ propagated = FALSE
    /\ NoSessions
    /\ SingleCall

NextPrepare == RestructureQuery \/ SelectModel \/ AugmentPrompt

SpecPrepare == InitPrepare /\ [][NextPrepare]_vars

BufferStates ==
    [content : {<<>>, <<"c">>}, is_in_think_block : BOOLEAN,
     full_answer : {<<>>, <<"c">>}, citations : {<<>>, <<"u1">>}]

\* StreamBuffer.append(chunk)
AppendCall ==
    /\ entry = "StreamBuffer"
    /\ Len(calls) < MaxCalls
    /\ \E chunk \in Pieces \cup {<<>>} :
          /\ buffer' = BufferAppend(buffer, chunk)
          /\ calls' = Append(calls, [op |-> "append", chunk |-> chunk])
    /\ UNCHANGED <<entry, callVars, text, rest, chunks, extractor, ps_pc, psEvents,
                   leaked, askVars, sessions, closed, memory>>

\* StreamBuffer.clear()
ClearCall ==
    /\ entry = "StreamBuffer"
    /\ Len(calls) < MaxCalls
    /\ buffer' = BufferClear(buffer)
    /\ calls' = Append(calls, [op |-> "clear", chunk |-> <<>>])
    /\ UNCHANGED <<entry, callVars, text, rest, chunks, extractor, ps_pc, psEvents,
                   leaked, askVars, sessions, closed, memory>>

InitBuffer ==
    /\ entry = "StreamBuffer"
    /\ text = <<>>
    /\ rest = <<>>
    /\ chunks = <<>>
    /\ extractor = "response"
    /\ buffer \in BufferStates
    /\ ps_pc = "loop"
    /\ psEvents = <<>>
    /\ leaked = FALSE
    /\ engine = NoEngine
    /\ as_pc = "none"
    /\ consumed = 0
    /\ events = <<>>
    /\ pending = NoAnswer
    /\ fallback = NoFallback
    /\ requests = 0
    /\ updates = <<>>
    /\ failed = ""
    /\ propagated = FALSE
    /\ NoSessions
    /\ SingleCall

NextBuffer == AppendCall \/ ClearCall

SpecBuffer == InitBuffer /\ [][NextBuffer]_vars

\* C29: append(c) makes the pending content the old content followed by c,
\* clear() makes it empty, and neither changes is_in_think_block,
\* full_answer or citations.
C29_AppendClearFrame ==
    [][LET call == calls'[Len(calls')]
       IN  /\ call.op = "append" => buffer'.content = buffer.content \o call.chunk
           /\ call.op = "clear" => buffer'.content = <<>>
           /\ buffer'.is_in_think_block = buffer.is_in_think_block
           /\ buffer'.full_answer = buffer.full_answer
           /\ buffer'.citations = buffer.citations
           /\ DOMAIN buffer' = DOMAIN buffer]_vars

\* a buffer inside a reasoning segment, with an answer and a citation, was
\* appended to and then cleared
C29_Witness ==
    /\ entry = "StreamBuffer"
    /\ Len(calls) = 2
    /\ calls[1] = [op |-> "append", chunk |-> THINK_BLOCK_END]
    /\ calls[2].op = "clear"
    /\ buffer = [content |-> <<>>, is_in_think_block |-> TRUE,
                 full_answer |-> <<"c">>, citations |-> <<"u1">>]

\* the start marker ends one chunk and the end marker begins the next one
EndMarkerOpensChunk ==
    /\ Len(chunks) = 2
    /\ Find(chunks[1].content, THINK_BLOCK_START)
          = Len(chunks[1].content) - Len(THINK_BLOCK_START)
    /\ Find(chunks[2].content, THINK_BLOCK_END) = 0

\* C30: when the end marker arrives while the processor is inside a
\* reasoning segment, the extraction step that consumes it returns nothing,
\* and the text that follows the marker is appended to full_answer and
\* emitted once: the final answer is the text outside the pair, verbatim.
C30_TextAfterEndMarkerOnce ==
    (entry = "process_stream" /\ FinalYielded /\ OnePair /\ EndMarkerOpensChunk) =>
       /\ Last(psEvents).answer = RemoveThinkBlocks(text)
       /\ NonFinalText(psEvents) = RemoveThinkBlocks(text)

\* C31: a chunk that arrives in the reasoning state and does not complete
\* an end marker is only buffered: extract_think_block returns nothing and
\* leaves is_in_think_block, full_answer and citations as they are, the
\* pending content is the old content followed by the chunk, and
\* process_stream yields no event before it pulls the next chunk.
C31_SuspensionPoint ==
    [][(/\ entry = "process_stream"
        /\ ps_pc = "loop"
        /\ Len(chunks') = Len(chunks) + 1
        /\ buffer.is_in_think_block
        /\ ~Contains(buffer.content \o chunks'[Len(chunks')].content, THINK_BLOCK_END))
       => /\ psEvents' = psEvents
          /\ ps_pc' = "loop"
          /\ buffer'.content = buffer.content \o chunks'[Len(chunks')].content
          /\ buffer'.is_in_think_block
          /\ buffer'.full_answer = buffer.full_answer
          /\ buffer'.citations = buffer.citations]_vars

\* visible text was yielded, a segment opened, and a chunk of reasoning
\* text was buffered without an event
C31_Witness ==
    /\ entry = "process_stream"
    /\ ps_pc = "loop"
    /\ Len(chunks) = 2
    /\ chunks[1].content = <<"c">> \o THINK_BLOCK_START
    /\ chunks[2].content = <<"c">>
    /\ buffer.is_in_think_block
    /\ buffer.content = <<"c">>
    /\ buffer.full_answer = <<"c">>
    /\ Len(psEvents) = 1

(***************************************************************************)
(* extract_think_block on its own: called, repeatedly, on a buffer in any  *)
(* state.  calls records the buffer before and after each call and the     *)
(* value returned.                                                         *)
(***************************************************************************)
ExtractBuffers ==
    [content : Texts, is_in_think_block : BOOLEAN,
     full_answer : {<<>>, <<"c">>}, citations : {<<>>, <<"u1">>}]

\* StreamProcessor.extract_think_block(buffer)
ExtractCall ==
    /\ entry = "extract_think_block"
    /\ Len(calls) < MaxCalls
    /\ LET result == ExtractThinkBlock(buffer)
       IN  /\ buffer' = result.buf
           /\ calls' = Append(calls, [before |-> buffer, after |-> result.buf,
                                      none |-> result.none, val |-> result.val])
    /\ UNCHANGED <<entry, callVars, text, rest, chunks, extractor, ps_pc, psEvents,
                   leaked, askVars, sessions, closed, memory>>

InitExtract ==
    /\ entry = "extract_think_block"
    /\ text = <<>>
    /\ rest = <<>>
    /\ chunks = <<>>
    /\ extractor = "response"
    /\ buffer \in ExtractBuffers
    /\ ps_pc = "loop"
    /\ psEvents = <<>>
    /\ leaked = FALSE
    /\ engine = NoEngine
    /\ as_pc = "none"
    /\ consumed = 0
    /\ events = <<>>
    /\ pending = NoAnswer
    /\ fallback = NoFallback
    /\ requests = 0
    /\ updates = <<>>
    /\ failed = ""
    /\ propagated = FALSE
    /\ NoSessions
    /\ SingleCall

NextExtract == ExtractCall

SpecExtract == InitExtract /\ [][NextExtract]_vars

\* the step the outside state is specified to take on the pending content
\* of call: what is returned, followed by the marker when one was found and
\* by what stays pending, is the old pending content; the returned span
\* holds no start marker; the state becomes reasoning exactly when a start
\* marker was pending; without one nothing stays pending
OutsideStep(call) ==
    LET pending_before == call.before.content
        found == Contains(pending_before, THINK_BLOCK_START)
    IN  /\ call.none <=> call.val = <<>>
        /\ ~Contains(call.val, THINK_BLOCK_START)
        /\ call.after.is_in_think_block <=> found
        /\ pending_before = call.val \o (IF found THEN THINK_BLOCK_START ELSE <<>>)
                               \o call.after.content
        /\ ~found => call.after.content = <<>>
        /\ call.after.full_answer = call.before.full_answer
        /\ call.after.citations = call.before.citations

\* C32: in the outside state extract_think_block takes the specified step
\* for every pending content: all of it is returned and cleared when no
\* start marker is pending (nothing when it is empty), the prefix before the
\* first start marker is returned and prefix and marker are removed when one
\* is (nothing when the marker is first), and full_answer and citations are
\* left alone.
C32_OutsideStep ==
    entry = "extract_think_block" =>
       \A i \in DOMAIN calls :
          ~calls[i].before.is_in_think_block => OutsideStep(calls[i])

\* the call returned the prefix before the first of two start markers
C32_Witness ==
    /\ entry = "extract_think_block"
    /\ Len(calls) = 1
    /\ ~calls[1].before.is_in_think_block
    /\ calls[1].before.content = <<"c">> \o THINK_BLOCK_START \o THINK_BLOCK_START
    /\ calls[1].val = <<"c">>
    /\ buffer.content = THINK_BLOCK_START
    /\ buffer.is_in_think_block
    /\ buffer.full_answer = <<"c">>

\* C33: every non-final event carries the citations the harvester returns
\* for the answer text up to and including the span of that event.
C33_EventCarriesOwnCitations ==
    (entry = "process_stream" /\ extractor = "cite") =>
       \A i \in 1..Len(psEvents) :
          ~psEvents[i].is_final =>
             Range(CiteExtractor(NonFinalText(Upto(psEvents, i))))
                \subseteq Range(psEvents[i].citations)

(***************************************************************************)
(* process_stream over provider responses some of which carry no text: the *)
(* text arrives one piece per chunk, and between the pieces the source may  *)
(* deliver chunks whose delta is None or "" (both are falsy for the test    *)
(* of line 129 and are written <<>>), with or without citations.           *)
(***************************************************************************)
MaxGaps == 2

\* the chunks without text delivered so far
Gaps == {i \in DOMAIN chunks : chunks[i].content = <<>>}

\* the citation attribute of a provider response
ProviderCitations ==
    {NoCitations, NullCitations, CitationList(<<"u1">>), CitationList(<<"u2", "u2">>)}

\* the source delivers a chunk without text
PullGap ==
    /\ Resumable
    /\ ps_pc = "loop"
    /\ Cardinality(Gaps) < MaxGaps
    /\ \E cit \in ProviderCitations :
          LET response == Response(<<>>, cit)
          IN  /\ chunks' = Append(chunks, response)
              /\ Apply(HandleResponse(buffer, response, extractor))
    /\ UNCHANGED <<entry, sessionVars, callVars, text, rest, extractor, askVars>>

InitGaps ==
    /\ entry = "process_stream"
    /\ text \in Texts
    /\ rest = text
    /\ chunks = <<>>
    /\ extractor = "cite"
    /\ buffer = NewStreamBuffer
    /\ ps_pc = "loop"
    /\ psEvents = <<>>
    /\ leaked = FALSE
    /\ engine = NoEngine
    /\ as_pc = "none"
    /\ consumed = 0
    /\ events = <<>>
    /\ pending = NoAnswer
    /\ fallback = NoFallback
    /\ requests = 0
    /\ updates = <<>>
    /\ failed = ""
    /\ propagated = FALSE
    /\ NoSessions
    /\ SingleCall

NextGaps == PullPiece \/ PullGap \/ DrainStep \/ Exhausted \/ Return

SpecGaps == InitGaps /\ [][NextGaps]_vars

\* C34: a chunk without text, whose citation attribute is absent or a list,
\* yields no event and leaves the pending content, the state and
\* full_answer as they are, in the outside and in the reasoning state; the
\* processor goes on to the next chunk, and the citations of the chunk are
\* in the running citation set.
C34_EmptyChunkFrame ==
    [][(/\ entry = "process_stream"
        /\ Len(chunks') = Len(chunks) + 1
        /\ chunks'[Len(chunks')].content = <<>>
        /\ ~chunks'[Len(chunks')].citations.null)
       => /\ psEvents' = psEvents
          /\ ps_pc' = "loop"
          /\ buffer'.content = buffer.content
          /\ buffer'.is_in_think_block = buffer.is_in_think_block
          /\ buffer'.full_answer = buffer.full_answer
          /\ Range(buffer'.citations)
                = Range(buffer.citations) \cup Range(chunks'[Len(chunks')].citations.list)]_vars

\* a chunk without text but with a citation arrived inside a reasoning
\* segment that holds pending text, after a chunk without text and without
\* citations had arrived outside
C34_Witness ==
    /\ entry = "process_stream"
    /\ Len(chunks) = 4
    /\ chunks[1] = Response(<<>>, NoCitations)
    /\ chunks[4] = Response(<<>>, CitationList(<<"u1">>))
    /\ buffer.is_in_think_block
    /\ buffer.content = <<"c">>
    /\ buffer.citations = <<"u1">>
    /\ psEvents = <<>>
    /\ ps_pc = "loop"

\* C35: whenever process_stream is about to pull the next chunk or finds the
\* source exhausted, the pending content is empty or the buffer is in the
\* reasoning state; so the final event is yielded once, the branch that
\* flushes leftover pending text at the end of the stream is never taken.
C35_Quiescence ==
    entry = "process_stream" =>
       /\ ps_pc = "loop" => (buffer.content = <<>> \/ buffer.is_in_think_block)
       /\ Cardinality({i \in DOMAIN psEvents : psEvents[i].is_final}) <= 1

\* a finished stream that ended inside a reasoning segment with pending
\* reasoning text, after a visible span: one span event, one final event
C35_Witness ==
    /\ entry = "process_stream"
    /\ ps_pc = "done"
    /\ Len(chunks) = 2
    /\ buffer.is_in_think_block
    /\ buffer.content = <<"c">>
    /\ TextsAndFlags(psEvents) = <<<<<<"c">>, FALSE>>, <<<<"c">>, TRUE>>>>

(***************************************************************************)
(* A session whose ask_stream generator is in flight: the consumer pulls   *)
(* its events while close() and further calls are made on the session.     *)
(* The generator was obtained from AuxKnowSession.ask_stream with the       *)
(* default callbacks, so its update_context_callback is _update_context of *)
(* the session.  close() is called once, while the generator has not        *)
(* returned.                                                               *)
(***************************************************************************)
\* the session the generator belongs to
InFlightSession == 1

\* AuxKnowSession.close -> AuxKnow._close_session, between two pulls
CloseInFlight ==
    /\ entry = "ask_stream"
    /\ Len(calls) < MaxCalls
    /\ as_pc # "done"
    /\ \A i \in DOMAIN calls : calls[i].op # "close"
    /\ IF closed[InFlightSession]
       THEN UNCHANGED <<sessions, closed>>
       ELSE /\ closed' = [closed EXCEPT ![InFlightSession] = TRUE]
            /\ sessions' = [id \in DOMAIN sessions \ {InFlightSession} |-> sessions[id]]
    /\ calls' = Append(calls, Call("close", InFlightSession, "", FALSE))
    /\ UNCHANGED <<entry, callVars, streamVars, askVars, memory>>

\* AuxKnowSession.ask / ask_stream called between two pulls, up to the point
\* where the call is handed to the engine
CallInFlight ==
    /\ entry = "ask_stream"
    /\ Len(calls) < MaxCalls
    /\ calls # <<>> => Last(calls).op = "close"
    /\ \E op \in {"ask", "ask_stream"} :
          calls' = Append(calls,
                          IF closed[InFlightSession]
                          THEN Call(op, InFlightSession, "SessionClosedError", FALSE)
                          ELSE Call(op, InFlightSession, "", TRUE))
    /\ UNCHANGED <<entry, callVars, streamVars, askVars, sessions, closed, memory>>

\* the memory packet _update_context builds from the question and the answer
AnswerPacket(memory_packet_id, session, response) ==
    [memory_packet_id |-> memory_packet_id, session |-> session,
     question |-> "question", response |-> response]

\* faulty variant: the final answer of a closed session is not stored
FinalizeInSessionSkipsClosed ==
    /\ entry = "ask_stream"
    /\ as_pc = "finalize"
    /\ IF pending.answer = NoneContent
       THEN Fail("answer") /\ UNCHANGED <<updates, memory>>
       ELSE /\ updates' = Append(updates, pending)
            /\ memory' = IF closed[InFlightSession]
                         THEN memory
                         ELSE [memory EXCEPT
                                 ![InFlightSession] =
                                    UpdateContext(memory[InFlightSession],
                                                  AnswerPacket(Len(updates) + 1,
                                                               InFlightSession, pending))]
            /\ events' = Append(events, pending)
            /\ as_pc' = "stream"
            /\ UNCHANGED <<failed, propagated>>
    /\ UNCHANGED <<entry, callVars, streamVars, engine, consumed, pending, fallback,
                   requests, sessions, closed, calls>>

\* ask_stream lines 1317-1327 with the session's _update_context as
\* update_context_callback: the final answer is stored in the memory of the
\* session, then yielded
FinalizeInSession ==
    /\ entry = "ask_stream"
    /\ as_pc = "finalize"
    /\ IF pending.answer = NoneContent
       THEN Fail("answer") /\ UNCHANGED <<updates, memory>>
       ELSE /\ updates' = Append(updates, pending)
            /\ memory' = [memory EXCEPT
                            ![InFlightSession] =
                               UpdateContext(memory[InFlightSession],
                                             AnswerPacket(Len(updates) + 1,
                                                          InFlightSession, pending))]
            /\ events' = Append(events, pending)
            /\ as_pc' = "stream"
            /\ UNCHANGED <<failed, propagated>>
    /\ UNCHANGED <<entry, callVars, streamVars, engine, consumed, pending, fallback,
                   requests, sessions, closed, calls>>

\* the provider text is a plain answer or one with a reasoning block
InitInFlight ==
    /\ entry = "ask_stream"
    /\ text \in {<<"c">>, THINK_BLOCK_START \o <<"c">> \o THINK_BLOCK_END \o <<"c">>}
    /\ rest = text
    /\ chunks = <<>>
    /\ extractor = "response"
    /\ buffer = NewStreamBuffer
    /\ ps_pc = "loop"
    /\ psEvents = <<>>
    /\ leaked = FALSE
    /\ engine = [initialized |-> TRUE, get_context_callback |-> "ok",
                 update_context_callback |-> "ok"]
    /\ as_pc = "start"
    /\ consumed = 0
    /\ events = <<>>
    /\ pending = NoAnswer
    /\ fallback = NoFallback
    /\ requests = 0
    /\ updates = <<>>
    /\ failed = ""
    /\ propagated = FALSE
    /\ sessions = [id \in {InFlightSession} |-> InFlightSession]
    /\ closed = [id \in {InFlightSession} |-> FALSE]
    /\ calls = <<>>
    /\ memory = [id \in {InFlightSession} |-> <<>>]
    /\ SingleCall

NextInFlight ==
    \/ PullChunk \/ DrainStep \/ Exhausted \/ Return \/ SourceRaises
    \/ PrepareRequest \/ StreamCompletion
    \/ ForwardEvent \/ TakeFinal \/ CatchStreamError
    \/ NestedAsk \/ NestedReturn \/ FallbackReturn
    \/ FinalizeInSession \/ StreamLoopEnd \/ StreamEnd
    \/ CloseInFlight \/ CallInFlight

SpecInFlight == InitInFlight /\ [][NextInFlight]_vars

\* C36: whenever close() is called while the generator is in flight, the
\* generator yields the events that follow from its chunks, ending in one
\* final event, and its final answer is stored in the memory of the session,
\* closed or not; a call on the session is rejected exactly when close()
\* was called before it.
C36_CloseLeavesGeneratorAlone ==
    entry = "ask_stream" =>
       /\ \A i \in 1..(Len(events) - 1) : ~events[i].is_final
       /\ CallEnded
             => /\ Last(events).is_final
                /\ failed = "" =>
                     LET alone == ProcessStream(chunks, "response")
                     IN  /\ TextsAndFlags(events) = TextsAndFlags(alone)
                         /\ \A i \in 1..(Len(events) - 1) : events[i] = alone[i]
                         /\ \E d \in DOMAIN memory[InFlightSession] :
                               memory[InFlightSession][d].response = Last(events)
       /\ \A j \in 1..Len(calls) :
             calls[j].op # "close" =>
                (calls[j].error = "SessionClosedError"
                    <=> \E i \in 1..(j - 1) : calls[i].op = "close")

\* close() was called before the generator returned; the generator went on to its final event and
\* stored it, and an ask made after the close was rejected
C36_Witness ==
    /\ entry = "ask_stream"
    /\ Len(calls) = 2
    /\ calls[1].op = "close"
    /\ calls[2].error = "SessionClosedError"
    /\ closed[InFlightSession]
    /\ CallEnded
    /\ failed = ""
    /\ Len(events) = 2
    /\ memory[InFlightSession][UPDATE_MEMORY_DEFAULT_ID].response = Last(events)

\* a step that is a close() call on the session
IsCloseOf(session) ==
    /\ Len(calls') = Len(calls) + 1
    /\ Last(calls').op = "close"
    /\ Last(calls').session = session

\* C37: close() is idempotent and local: closing a closed session raises
\* nothing and changes neither the closed flags, the registry nor the
\* memories, and closing a session changes neither the closed flag nor the
\* registry entry of any other session.
C37_CloseIdempotentAndLocal ==
    [][entry = "session" =>
         \A a \in Created :
            IsCloseOf(a) =>
               /\ Last(calls').error = ""
               /\ closed[a] => <<sessions, closed, memory>>' = <<sessions, closed, memory>>
               /\ closed'[a]
               /\ \A b \in Created \ {a} :
                     /\ closed'[b] = closed[b]
                     /\ (b \in DOMAIN sessions') = (b \in DOMAIN sessions)
                     /\ b \in DOMAIN sessions => sessions'[b] = sessions[b]]_vars

\* one session was closed twice while another one stayed open and registered
C37_Witness ==
    /\ entry = "session"
    /\ Len(calls) = 2
    /\ \E a \in Created : \E b \in Created \ {a} :
          /\ \A i \in 1..2 : calls[i].op = "close" /\ calls[i].session = a
          /\ closed[a] /\ a \notin DOMAIN sessions
          /\ ~closed[b] /\ b \in DOMAIN sessions

DEFAULT_ANSWER_LENGTH_PARAGRAPHS == 3

DEFAULT_LINES_PER_PARAGRAPH == 5

MAX_ANSWER_LENGTH_PARAGRAPHS == 8

MAX_LINES_PER_PARAGRAPH == 10

\* how far above the larger maximum the values of a dictionary go
MaxExcess == 1

\* the largest number of items of a dictionary
MaxItems == 2

\* the values a dictionary gives: from the smaller maximum upwards
ConfigValues == MAX_ANSWER_LENGTH_PARAGRAPHS..(MAX_LINES_PER_PARAGRAPH + MaxExcess)

\* the integer fields of AuxKnowConfig
ConfigFields == {"answer_length_in_paragraphs", "lines_per_paragraph"}

\* AuxKnowConfig(): the fields at their defaults
NewAuxKnowConfig ==
    [answer_length_in_paragraphs |-> DEFAULT_ANSWER_LENGTH_PARAGRAPHS,
     lines_per_paragraph |-> DEFAULT_LINES_PER_PARAGRAPH]

\* the dictionaries of the calls: their keys are fields, or enable_reasoning,
\* which the documentation of set_config lists and AuxKnowConfig does not
\* declare
ConfigDicts ==
    {config \in UNION {[1..n -> (ConfigFields \cup {"enable_reasoning"}) \X ConfigValues] :
                          n \in 0..MaxItems} :
        \A i, j \in DOMAIN config : config[i][1] = config[j][1] => i = j}

\* faulty variant: a value above the maximum leaves the field as it was
UpdateItemKeepsPrevious(self, key, value) ==
    LET clamped ==
           IF key = "answer_length_in_paragraphs"
           THEN IF value > MAX_ANSWER_LENGTH_PARAGRAPHS THEN self[key] ELSE value
           ELSE IF key = "lines_per_paragraph"
           THEN IF value > MAX_LINES_PER_PARAGRAPH THEN self[key] ELSE value
           ELSE value
    IN  IF key \in DOMAIN self THEN [self EXCEPT ![key] = clamped] ELSE self

\* AuxKnowConfig.update, the body of the loop: lines 48-68
UpdateItem(self, key, value) ==
    LET clamped ==
           IF key = "answer_length_in_paragraphs"
           THEN IF value > MAX_ANSWER_LENGTH_PARAGRAPHS
                THEN DEFAULT_ANSWER_LENGTH_PARAGRAPHS ELSE value
           ELSE IF key = "lines_per_paragraph"
           THEN IF value > MAX_LINES_PER_PARAGRAPH
                THEN DEFAULT_LINES_PER_PARAGRAPH ELSE value
           ELSE value
    IN  IF key \in DOMAIN self THEN [self EXCEPT ![key] = clamped] ELSE self

RECURSIVE AuxKnowConfigUpdate(_, _)
\* AuxKnowConfig.update
AuxKnowConfigUpdate(self, config) ==
    IF config = <<>> THEN self
    ELSE AuxKnowConfigUpdate(UpdateItem(self, config[1][1], config[1][2]), Tail(config))

\* AuxKnow.set_config
SetConfig ==
    /\ entry = "set_config"
    /\ \E config \in ConfigDicts :
          /\ engine' = [engine EXCEPT !.config = AuxKnowConfigUpdate(@, config)]
          /\ calls' = <<[op |-> "set_config", config |-> config]>>
    /\ UNCHANGED <<entry, callVars, streamVars, as_pc, consumed, events, pending, fallback,
                   requests, updates, failed, propagated, sessions, closed, memory>>

InitConfig ==
    /\ entry = "set_config"
    /\ text = <<>>
    /\ rest = <<>>
    /\ chunks = <<>>
    /\ extractor = "response"
    /\ buffer = NewStreamBuffer
    /\ ps_pc = "loop"
    /\ psEvents = <<>>
    /\ leaked = FALSE
    /\ engine = [initialized |-> TRUE, get_context_callback |-> "none",
                 update_context_callback |-> "none", config |-> NewAuxKnowConfig]
    /\ as_pc = "none"
    /\ consumed = 0
    /\ events = <<>>
    /\ pending = NoAnswer
    /\ fallback = NoFallback
    /\ requests = 0
    /\ updates = <<>>
    /\ failed = ""
    /\ propagated = FALSE
    /\ NoSessions
    /\ SingleCall

NextConfig == SetConfig

SpecConfig == InitConfig /\ [][NextConfig]_vars

\* the values the dictionary gives for the key (none or one)
Given(config, key) == {config[i][2] : i \in {j \in DOMAIN config : config[j][1] = key}}

\* the field after a call that gives it the value
Stored(max, default, value) == IF value > max THEN default ELSE value

====
